---- MODULE Spec2Model ----
(***************************************************************************)
(* Fastnet -> NMEA translator (ghotihook/fastnet2ip).                      *)
(*                                                                         *)
(* The threaded program "fn2ip standalone/fn2ip.py": serial_reader puts    *)
(* chunks on raw_queue, frame_scanner frames and decodes them, updates     *)
(* live_data and lets the trigger functions put sentences on output_queue. *)
(*                                                                         *)
(* A byte is an integer 0..255.  A decoded value raw/divisor is kept as    *)
(* the exact rational (v, den) instead of a float.                         *)
(***************************************************************************)
EXTENDS Integers, Sequences, FiniteSets, TLC

Byte == 0..255

RECURSIVE SumBytes(_)
SumBytes(s) == IF s = <<>> THEN 0 ELSE Head(s) + SumBytes(Tail(s))

(* Python slice s[a:b] for 0 <= a, with b clipped to len(s). *)
Slice(s, a, b) ==
    LET hi == IF b > Len(s) THEN Len(s) ELSE b
    IN  IF a >= hi THEN <<>> ELSE SubSeq(s, a + 1, hi)

(* ---------------------------------------------------------------------- *)
(* calculate_checksum                                                      *)
(* ---------------------------------------------------------------------- *)
(* the checksum without its mask: 0x100 - sum(data) % 0x100 *)
calculate_checksum_unmasked(data) == 256 - (SumBytes(data) % 256)

calculate_checksum(data) == (256 - (SumBytes(data) % 256)) % 256

RECURSIVE Flatten(_)
Flatten(ss) == IF ss = <<>> THEN <<>> ELSE Head(ss) \o Flatten(Tail(ss))

(* ---------------------------------------------------------------------- *)
(* FORMAT_SIZE_MAP.get(format_type, 0)                                     *)
(* ---------------------------------------------------------------------- *)
FORMAT_SIZE_MAP_without_reserved(format_type) ==
    CASE format_type \in {1, 2, 3, 8} -> 2
      [] format_type \in {4, 5, 6, 7, 10} -> 4
      [] OTHER -> 0

FORMAT_SIZE_MAP(format_type) ==
    CASE format_type = 0  -> 4
      [] format_type = 1  -> 2
      [] format_type = 2  -> 2
      [] format_type = 3  -> 2
      [] format_type = 4  -> 4
      [] format_type = 5  -> 4
      [] format_type = 6  -> 4
      [] format_type = 7  -> 4
      [] format_type = 8  -> 2
      [] format_type = 10 -> 4
      [] OTHER -> 0

(* ---------------------------------------------------------------------- *)
(* Values.  kind "num": v = <<raw>>, value raw/den.  kind "pair":          *)
(* v = <<first, second>>, each over den.  kind "timer": v = <<seconds>>    *)
(* (a timedelta is its total duration).  kind "text": v = character codes. *)
(* ---------------------------------------------------------------------- *)
Val(kind, v, den) == [kind |-> kind, v |-> v, den |-> den]

(* int.from_bytes(<<hi, lo>>, byteorder="big", signed=True) *)
Unsigned16(hi, lo) == hi * 256 + lo

Signed16(hi, lo) ==
    IF hi * 256 + lo >= 32768 THEN hi * 256 + lo - 65536 ELSE hi * 256 + lo

(* convert_segment_b_to_char: the character code of the glyph *)
convert_segment_b_to_char(segment_byte) ==
    CASE segment_byte = 0   -> 32    \* " "
      [] segment_byte = 190 -> 79    \* "O"
      [] segment_byte = 232 -> 70    \* "F"
      [] segment_byte = 98  -> 110   \* "n"
      [] segment_byte = 114 -> 111   \* "o"
      [] OTHER -> 63                 \* "?"

divisor_map(divisor_bits) ==
    CASE divisor_bits = 0 -> 1
      [] divisor_bits = 1 -> 10
      [] divisor_bits = 2 -> 100
      [] divisor_bits = 3 -> 1000

digits_map(digits_bits) == digits_bits + 1

(* The decoder's None. *)
NoResult ==
    [ok |-> FALSE, divisor |-> 0, digits |-> 0, format_bits |-> 0,
     raw |-> <<>>, interpreted |-> Val("none", <<>>, 1)]

Result(divisor, digits, format_bits, raw, interpreted) ==
    [ok |-> TRUE, divisor |-> divisor, digits |-> digits,
     format_bits |-> format_bits, raw |-> raw, interpreted |-> interpreted]

(* divisor_bits = (format_byte >> 6) & 0b11 *)
divisor_bits_low(format_byte) == format_byte % 4

divisor_bits_of(format_byte) == (format_byte \div 64) % 4

(* ---------------------------------------------------------------------- *)
(* decode_format_and_data(channel_id, format_byte, data_bytes)             *)
(* ---------------------------------------------------------------------- *)
decode_format_and_data(channel_id, format_byte, data_bytes) ==
    LET divisor_bits == divisor_bits_of(format_byte)
        digits_bits  == (format_byte \div 16) % 4
        format_bits  == format_byte % 16
        divisor == divisor_map(divisor_bits)
        digits  == digits_map(digits_bits)
        n == Len(data_bytes)
        R(raw, interpreted) == Result(divisor, digits, format_bits, raw, interpreted)
    IN
    IF n = 0 THEN NoResult
    ELSE CASE format_bits = 1 ->
                IF n # 2 THEN NoResult
                ELSE LET raw_value == Signed16(data_bytes[1], data_bytes[2])
                     IN  R(<<raw_value>>, Val("num", <<raw_value>>, divisor))
           [] format_bits = 2 ->
                IF n # 2 THEN NoResult
                ELSE LET segment_code == (data_bytes[1] \div 4) % 64
                         unsigned_value == (data_bytes[1] % 4) * 256 + data_bytes[2]
                     IN  R(<<segment_code, unsigned_value>>,
                           Val("num", <<unsigned_value>>, divisor))
           [] format_bits = 3 \/ format_bits = 8 ->
                IF n # 2 THEN NoResult
                ELSE LET segment_code == (data_bytes[1] \div 2) % 128
                         unsigned_value == (data_bytes[1] % 2) * 256 + data_bytes[2]
                     IN  R(<<segment_code, unsigned_value>>,
                           Val("num", <<unsigned_value>>, divisor))
           [] format_bits = 4 ->
                IF n # 4 THEN NoResult
                ELSE LET segment_code == data_bytes[1]
                         unsigned_value == data_bytes[2] * 65536
                                           + data_bytes[3] * 256 + data_bytes[4]
                     IN  R(<<segment_code, unsigned_value>>,
                           Val("num", <<unsigned_value>>, divisor))
           [] format_bits = 5 ->
                IF n # 4 THEN NoResult
                ELSE R(<<data_bytes[1], data_bytes[2], data_bytes[3], data_bytes[4]>>,
                       Val("timer", <<data_bytes[2] * 3600 + data_bytes[3] * 60
                                      + data_bytes[4]>>, 1))
           [] format_bits = 6 ->
                IF n # 4 THEN NoResult
                ELSE R(data_bytes,
                       Val("text", [i \in 1..4 |->
                                      convert_segment_b_to_char(data_bytes[i])], 1))
           [] format_bits = 7 ->
                IF n # 4 THEN NoResult
                ELSE LET msb == (data_bytes[3] \div 2) % 128
                         lsb == data_bytes[4]
                         unsigned_value == msb * 256 + lsb
                     IN  R(<<unsigned_value>>, Val("num", <<unsigned_value>>, divisor))
           [] format_bits = 10 ->
                IF n # 4 THEN NoResult
                ELSE LET first_value  == Signed16(data_bytes[1], data_bytes[2])
                         second_value == Signed16(data_bytes[3], data_bytes[4])
                     IN  R(<<first_value, second_value>>,
                           Val("pair", <<first_value, second_value>>, divisor))
           [] OTHER -> NoResult

(* ---------------------------------------------------------------------- *)
(* CHANNEL_LOOKUP.get(channel_id, f"<prefix>: Unknown Channel (0x..)")     *)
(* ---------------------------------------------------------------------- *)
HexDigit == <<"0", "1", "2", "3", "4", "5", "6", "7",
              "8", "9", "A", "B", "C", "D", "E", "F">>

Hex2(b) == HexDigit[(b \div 16) + 1] \o HexDigit[(b % 16) + 1]

CHANNEL_LOOKUP(channel_id, prefix) ==
    CASE channel_id = 0 -> "Node Reset"
      [] channel_id = 6 -> "Something to do with ACP (0x06)"
      [] channel_id = 11 -> "Rudder Angle"
      [] channel_id = 28 -> "Air Temperature (°F)"
      [] channel_id = 29 -> "Air Temperature (°C)"
      [] channel_id = 30 -> "Sea Temperature (°F)"
      [] channel_id = 31 -> "Sea Temperature (°C)"
      [] channel_id = 39 -> "Head/Lift Trend"
      [] channel_id = 41 -> "Off Course"
      [] channel_id = 50 -> "Tacking Performance"
      [] channel_id = 51 -> "Reaching Performance"
      [] channel_id = 52 -> "Heel Angle"
      [] channel_id = 53 -> "Optimum Wind Angle"
      [] channel_id = 54 -> "Depth Sounder Receiver Gain"
      [] channel_id = 55 -> "Depth Sounder Noise"
      [] channel_id = 59 -> "Linear 4"
      [] channel_id = 60 -> "Rate Motion"
      [] channel_id = 65 -> "Boatspeed (Knots)"
      [] channel_id = 66 -> "Boatspeed (Raw)"
      [] channel_id = 70 -> "Something to do with ACP (0x46)"
      [] channel_id = 71 -> "LatLon"
      [] channel_id = 73 -> "Heading"
      [] channel_id = 74 -> "Heading (Raw)"
      [] channel_id = 77 -> "Apparent Wind Speed (Knots)"
      [] channel_id = 78 -> "Apparent Wind Speed (Raw)"
      [] channel_id = 79 -> "Apparent Wind Speed (m/s)"
      [] channel_id = 81 -> "Apparent Wind Angle"
      [] channel_id = 82 -> "Apparent Wind Angle (Raw)"
      [] channel_id = 83 -> "Target TWA"
      [] channel_id = 85 -> "True Wind Speed (Knots)"
      [] channel_id = 86 -> "True Wind Speed (m/s)"
      [] channel_id = 87 -> "Measured Wind Speed (Knots)"
      [] channel_id = 89 -> "True Wind Angle"
      [] channel_id = 90 -> "Measured Wind Angle Deg"
      [] channel_id = 100 -> "Average Speed (Knots)"
      [] channel_id = 101 -> "Aberage Speed (raw)"
      [] channel_id = 105 -> "Course"
      [] channel_id = 109 -> "True Wind Direction"
      [] channel_id = 111 -> "Next Leg Apparent Wind Angle"
      [] channel_id = 117 -> "Timer"
      [] channel_id = 125 -> "Target Boatspeed"
      [] channel_id = 127 -> "Velocity Made Good (Knots)"
      [] channel_id = 129 -> "Dead Reckoning Distance"
      [] channel_id = 130 -> "Leeway"
      [] channel_id = 131 -> "Tidal Drift"
      [] channel_id = 132 -> "Tidal Set"
      [] channel_id = 133 -> "Upwash"
      [] channel_id = 134 -> "Barometric Pressure Trend"
      [] channel_id = 135 -> "Barometric Pressure"
      [] channel_id = 141 -> "Battery Volts"
      [] channel_id = 154 -> "Heading on Next Tack"
      [] channel_id = 155 -> "Fore/Aft Trim"
      [] channel_id = 156 -> "Mast Angle"
      [] channel_id = 157 -> "Wind Angle to the Mast"
      [] channel_id = 158 -> "Pitch Rate (Motion)"
      [] channel_id = 166 -> "Autopilot Compass Target"
      [] channel_id = 175 -> "Autopilot Off Course"
      [] channel_id = 193 -> "Depth (Meters)"
      [] channel_id = 194 -> "Depth (Feet)"
      [] channel_id = 195 -> "Depth (Fathoms)"
      [] channel_id = 205 -> "Stored Log (NM)"
      [] channel_id = 207 -> "Trip Log (NM)"
      [] channel_id = 211 -> "Dead Reckoning Course"
      [] channel_id = 224 -> "Bearing Wpt. to Wpt. (True)"
      [] channel_id = 225 -> "Bearing Wpt. to Wpt. (Mag)"
      [] channel_id = 227 -> "Bearing to Waypoint (Rhumb True)"
      [] channel_id = 228 -> "Bearing to Waypoint (Rhumb Mag)"
      [] channel_id = 229 -> "Bearing to Waypoint (G.C. True)"
      [] channel_id = 230 -> "Bearing to Waypoint (G.C. Mag)"
      [] channel_id = 231 -> "Distance to Waypoint (Rhumb)"
      [] channel_id = 232 -> "Distance to Waypoint (G.C.)"
      [] channel_id = 233 -> "Course Over Ground (True)"
      [] channel_id = 234 -> "Course Over Ground (Mag)"
      [] channel_id = 235 -> "Speed Over Ground"
      [] channel_id = 236 -> "Velocity Made Good (Course)"
      [] channel_id = 237 -> "Time to Waypoint"
      [] channel_id = 238 -> "Cross Track Error"
      [] channel_id = 239 -> "Remote 0"
      [] channel_id = 240 -> "Remote 1"
      [] channel_id = 241 -> "Remote 2"
      [] channel_id = 242 -> "Remote 3"
      [] channel_id = 243 -> "Remote 4"
      [] channel_id = 244 -> "Remote 5"
      [] channel_id = 245 -> "Remote 6"
      [] channel_id = 246 -> "Remote 7"
      [] channel_id = 247 -> "Remote 8"
      [] channel_id = 248 -> "Remote 9"
      [] channel_id = 250 -> "Next Waypoint Distance"
      [] channel_id = 251 -> "Time to Layline"
      [] OTHER -> prefix \o ": Unknown Channel (0x" \o Hex2(channel_id) \o ")"

(* ---------------------------------------------------------------------- *)
(* process_frame: the body of a frame and the walk over its triples.       *)
(* frame = frame[:-1]; body = frame[5:]                                    *)
(* ---------------------------------------------------------------------- *)
process_frame_body_keeps_checksum(frame) == Slice(frame, 5, Len(frame))

process_frame_body(frame) == Slice(Slice(frame, 0, Len(frame) - 1), 5, Len(frame))

Triple(channel_id, format_byte, data_bytes, result) ==
    [channel_id |-> channel_id, format_byte |-> format_byte,
     data_bytes |-> data_bytes, result |-> result]

(* What the loop does on a format type with no entry in FORMAT_SIZE_MAP:   *)
(* the code leaves the loop (break).                                       *)
RECURSIVE process_frame_loop(_, _)
process_frame_loop(body, index) ==
    IF ~(index < Len(body)) THEN <<>>
    ELSE IF index + 2 > Len(body) THEN <<>>                       \* break
    ELSE LET channel_id  == body[index + 1]
             format_byte == body[index + 2]
             at          == index + 2
             format_type == format_byte % 16
             data_length == FORMAT_SIZE_MAP(format_type)
         IN  IF data_length = 0 THEN <<>>                         \* break
             ELSE IF at + data_length > Len(body) THEN <<>>       \* break
             ELSE LET data_bytes == Slice(body, at, at + data_length)
                      result == decode_format_and_data(channel_id, format_byte,
                                                       data_bytes)
                  IN  <<Triple(channel_id, format_byte, data_bytes, result)>>
                      \o process_frame_loop(body, at + data_length)

process_frame_triples_all_or_nothing(frame) ==
    LET body == process_frame_body(frame)
        walked == process_frame_loop(body, 0)
        bytes == Flatten([i \in 1..Len(walked) |-> <<0, 0>> \o walked[i].data_bytes])
    IN  IF Len(bytes) = Len(body) THEN walked ELSE <<>>

(* The triples the loop walked over, decoded or skipped (continue). *)
process_frame_triples(frame) == process_frame_loop(process_frame_body(frame), 0)

(* The update_live_data calls of process_frame, in order. *)
Update(channel_name, value) == [channel_name |-> channel_name, value |-> value]

(* a decoder loop that stores only the channels of the table *)
RECURSIVE UpdatesOf_known_channels(_)
UpdatesOf_known_channels(triples) ==
    IF triples = <<>> THEN <<>>
    ELSE LET t == Head(triples)
         IN  (IF t.result.ok /\ CHANNEL_LOOKUP(t.channel_id, "") = CHANNEL_LOOKUP(t.channel_id, "x")
              THEN <<Update(CHANNEL_LOOKUP(t.channel_id, "process_frame"),
                            t.result.interpreted)>>
              ELSE <<>>)
             \o UpdatesOf_known_channels(Tail(triples))

RECURSIVE UpdatesOf(_)
UpdatesOf(triples) ==
    IF triples = <<>> THEN <<>>
    ELSE LET t == Head(triples)
         IN  (IF t.result.ok
              THEN <<Update(CHANNEL_LOOKUP(t.channel_id, "process_frame"),
                            t.result.interpreted)>>
              ELSE <<>>)
             \o UpdatesOf(Tail(triples))

(* ---------------------------------------------------------------------- *)
(* process_ascii_frame                                                     *)
(* ---------------------------------------------------------------------- *)
(* frame[6] and frame[7] are read before anything else: IndexError *)
process_ascii_frame_raises(frame) == Len(frame) < 8

IsAscii(bytes) == \A i \in 1..Len(bytes) : bytes[i] < 128

(* str.strip(): leading and trailing whitespace of an ASCII string *)
IsSpace(c) == c \in {9, 10, 11, 12, 13, 28, 29, 30, 31, 32}

RECURSIVE LStrip(_)
LStrip(s) == IF s # <<>> /\ IsSpace(Head(s)) THEN LStrip(Tail(s)) ELSE s

RECURSIVE RStrip(_)
RStrip(s) ==
    IF s # <<>> /\ IsSpace(s[Len(s)]) THEN RStrip(SubSeq(s, 1, Len(s) - 1)) ELSE s

(* str.rstrip() in the place of str.strip() *)
Strip_right_only(s) == RStrip(s)

Strip(s) == RStrip(LStrip(s))

(* The update_live_data calls of process_ascii_frame (none when the text   *)
(* does not decode as ASCII).                                              *)
process_ascii_frame_updates(frame) ==
    LET channel_id == frame[6]
        data_bytes == Slice(frame, 7, Len(frame) - 1)
    IN  IF IsAscii(data_bytes)
        THEN <<Update(CHANNEL_LOOKUP(channel_id, "process_ascii_frame"),
                      Val("text", Strip(data_bytes), 1))>>
        ELSE <<>>

(* ---------------------------------------------------------------------- *)
(* LiveStore: live_data maps a channel name to {"value", "timestamp"}      *)
(* ---------------------------------------------------------------------- *)
None == Val("none", <<>>, 1)

EmptyLive == [n \in {} |-> [value |-> None, timestamp |-> 0]]

get_live_data(live, name) ==
    IF name \in DOMAIN live THEN live[name].value ELSE None

(* a store that is replaced by the new record: live_data = {channel_name: ...} *)
live_data_put_alone(live, channel_name, raw_value, timestamp) ==
    [n \in {channel_name} |-> [value |-> raw_value, timestamp |-> timestamp]]

(* live_data[channel_name] = {"value": raw_value, "timestamp": timestamp} *)
live_data_put(live, channel_name, raw_value, timestamp) ==
    [n \in DOMAIN live \cup {channel_name} |->
        IF n = channel_name
        THEN [value |-> raw_value, timestamp |-> timestamp]
        ELSE live[n]]

(* ---------------------------------------------------------------------- *)
(* trigger_functions: the sentences a trigger puts on output_queue; an     *)
(* exception inside a trigger (a value that "{:.1f}" cannot format, a      *)
(* LatLon without hemisphere letters) leaves the queue as it is.           *)
(* A sentence is its identifier and the values formatted into it.          *)
(* ---------------------------------------------------------------------- *)
Sentence(id, args) == [id |-> id, args |-> args]

Formats(v) == v.kind = "num"

Simple(id, v) == IF Formats(v) THEN <<Sentence(id, <<v>>)>> ELSE <<>>

WithSibling(id, live, sibling, v) ==
    LET other == get_live_data(live, sibling)
    IN  IF Formats(other) /\ Formats(v) THEN <<Sentence(id, <<other, v>>)>> ELSE <<>>

(* str.find(c): 0-based index of the first c, -1 when there is none *)
RECURSIVE FindFrom(_, _, _)
FindFrom(s, c, i) ==
    IF i > Len(s) THEN -1 ELSE IF s[i] = c THEN i - 1 ELSE FindFrom(s, c, i + 1)

Find(s, c) == FindFrom(s, c, 1)

Max(a, b) == IF a >= b THEN a ELSE b

(* a builder that writes the longitude before the latitude *)
process_gll_nmea_longitude_first(v, now) ==
    IF v.kind # "text" THEN <<>>
    ELSE LET s == v.v
             lat_split_idx == Max(Find(s, 78), Find(s, 83))     \* "N", "S"
             lon_split_idx == Max(Find(s, 69), Find(s, 87))     \* "E", "W"
         IN  IF lat_split_idx = -1 \/ lon_split_idx = -1 THEN <<>>
             ELSE <<Sentence("GPGLL",
                      <<Val("text", Slice(s, lat_split_idx + 1, lon_split_idx), 1),
                        Val("text", <<s[lon_split_idx + 1]>>, 1),
                        Val("text", Slice(s, 0, lat_split_idx), 1),
                        Val("text", <<s[lat_split_idx + 1]>>, 1),
                        Val("time", <<now>>, 1)>>)>>

process_gll_nmea(v, now) ==
    IF v.kind # "text" THEN <<>>
    ELSE LET s == v.v
             lat_split_idx == Max(Find(s, 78), Find(s, 83))     \* "N", "S"
             lon_split_idx == Max(Find(s, 69), Find(s, 87))     \* "E", "W"
         IN  IF lat_split_idx = -1 \/ lon_split_idx = -1 THEN <<>>
             ELSE <<Sentence("GPGLL",
                      <<Val("text", Slice(s, 0, lat_split_idx), 1),
                        Val("text", <<s[lat_split_idx + 1]>>, 1),
                        Val("text", Slice(s, lat_split_idx + 1, lon_split_idx), 1),
                        Val("text", <<s[lon_split_idx + 1]>>, 1),
                        Val("time", <<now>>, 1)>>)>>

trigger_functions(channel_name, raw_value, live, now) ==
    CASE channel_name = "Boatspeed (Knots)" -> Simple("IIVHW", raw_value)
      [] channel_name = "Depth (Meters)" -> Simple("IIDBT", raw_value)
      [] channel_name = "Rudder Angle" -> Simple("IIRSA", raw_value)
      [] channel_name = "Battery Volts" -> Simple("IIXDR", raw_value)
      [] channel_name = "True Wind Direction" -> Simple("WIMWD", raw_value)
      [] channel_name = "True Wind Speed (Knots)" ->
            WithSibling("IIMWV,T", live, "True Wind Angle", raw_value)
      [] channel_name = "Apparent Wind Speed (Knots)" ->
            WithSibling("IIMWV,R", live, "Apparent Wind Angle", raw_value)
      [] channel_name = "Sea Temperature (°C)" -> Simple("IIMTW", raw_value)
      [] channel_name = "Heading" -> Simple("IIHDG", raw_value)
      [] channel_name = "Speed Over Ground" ->
            WithSibling("IIVTG", live, "Course Over Ground (Mag)", raw_value)
      [] channel_name = "LatLon" -> process_gll_nmea(raw_value, now)
      [] OTHER -> <<>>

(* ---------------------------------------------------------------------- *)
(* update_live_data, applied to the calls of one frame in order: the       *)
(* store and the output queue after them.                                  *)
(* ---------------------------------------------------------------------- *)
(* trigger_function(raw_value) raises: every trigger either puts one       *)
(* sentence on output_queue or raises before it does                       *)
trigger_raises(channel_name, raw_value, live, now) ==
    /\ channel_name \in
           {"Boatspeed (Knots)", "Depth (Meters)", "Rudder Angle", "Battery Volts",
            "True Wind Direction", "True Wind Speed (Knots)",
            "Apparent Wind Speed (Knots)", "Sea Temperature (°C)", "Heading",
            "Speed Over Ground", "LatLon"}
    /\ trigger_functions(channel_name, raw_value, live, now) = <<>>

RECURSIVE update_live_data_unguarded(_, _, _, _)
update_live_data_unguarded(updates, live, out, now) ==
    IF updates = <<>> THEN [live |-> live, out |-> out]
    ELSE LET u == Head(updates)
             stored == live_data_put(live, u.channel_name, u.value, now)
         IN  IF trigger_raises(u.channel_name, u.value, stored, now)
             THEN [live |-> stored, out |-> out]
             ELSE update_live_data_unguarded(Tail(updates), stored,
                      out \o trigger_functions(u.channel_name, u.value, stored, now),
                      now)

RECURSIVE update_live_data(_, _, _, _)
update_live_data(updates, live, out, now) ==
    IF updates = <<>> THEN [live |-> live, out |-> out]
    ELSE LET u == Head(updates)
             stored == live_data_put(live, u.channel_name, u.value, now)
         IN  update_live_data(Tail(updates), stored,
                 out \o trigger_functions(u.channel_name, u.value, stored, now),
                 now)

(* ---------------------------------------------------------------------- *)
(* Bounds and the byte streams the serial line delivers.                   *)
(* ---------------------------------------------------------------------- *)
MaxGarbage == 2      \* garbage bytes in front of the first frame
MaxChunk == 3        \* bytes one ser.read() returns
MaxRawQueue == 1     \* chunks waiting in raw_queue (RAW_QUEUE_SIZE in the code)
MaxClock == 1        \* ticks of the wall clock

GarbageBytes == {1, 241}

FrameS1 == <<1, 9, 4, 1, 241, 65, 1, 0, 91, 99>>
FrameSkip == <<1, 9, 10, 1, 235, 65, 0, 1, 2, 3, 4, 73, 1, 0, 42, 65>>
FrameUnknownFormat == <<1, 9, 6, 1, 239, 65, 9, 73, 1, 0, 42, 66>>
FrameTruncatedPayload == <<1, 9, 7, 1, 238, 65, 1, 0, 91, 73, 1, 0, 25>>
FrameTruncatedId == <<1, 9, 5, 1, 240, 65, 1, 0, 91, 73, 26>>
FrameAsciiEmpty == <<255, 255, 0, 3, 255, 0>>
FrameLatLon == <<1, 9, 8, 3, 235, 71, 0, 32, 49, 78, 50, 87, 32, 113>>
FrameKeepAlive == <<1, 9, 0, 12, 234, 0>>
FrameWind == <<1, 9, 8, 1, 237, 89, 65, 254, 62, 85, 65, 0, 123, 25>>

FirstFrames ==
    {FrameS1, FrameSkip, FrameUnknownFormat, FrameTruncatedPayload,
     FrameTruncatedId, FrameAsciiEmpty, FrameLatLon, FrameKeepAlive, FrameWind}

SecondFrames == {<<>>, FrameS1, FrameKeepAlive}

Garbage == UNION {[1..n -> GarbageBytes] : n \in 0..MaxGarbage}

(* A header match by accident that spans the whole frame behind it. *)
ResyncStreams == {<<5, 1, 8, 241>> \o FrameS1}

Streams ==
    {g \o f1 \o f2 : g \in Garbage, f1 \in FirstFrames, f2 \in SecondFrames}
        \cup ResyncStreams

(* ---------------------------------------------------------------------- *)
(* State                                                                   *)
(* ---------------------------------------------------------------------- *)
VARIABLES
    stream,        \* every byte the serial line will deliver (never changes)
    wire,          \* the bytes serial_reader has not read yet
    raw_queue,     \* chunks put by serial_reader, not yet taken by frame_scanner
    buffer,        \* frame_scanner's buffer
    pc,            \* frame_scanner: "get" (raw_queue.get) or "scan" (inner loop)
    live_data,
    output_queue,
    utcnow,        \* the wall clock
    log,           \* history: the frames handed on and the bytes dropped, in order
    handed,        \* history: the last frame handed on and what was decoded of it
    dec,           \* the last call of decode_format_and_data made on its own
    records,       \* the {"value", "timestamp"} dict objects, by reference
    live_data_lock,\* who holds live_data_lock: "free" or a thread
    scanner,       \* frame_scanner inside update_live_data: position and locals
    printer,       \* print_live_data: position and locals
    seen,          \* history: the (channel, value, timestamp) rows the printer read
    history,       \* history: the updates stored, in order
    frame_queue,   \* fastnet2ip.py: frame_buffer.frame_queue
    sent,          \* the datagrams given to sendto of the UDP socket
    in_hand,       \* serial_reader: the data read, until raw_queue.put returns
    updates,       \* process_frame: the update_live_data calls it has still to make
    args,          \* fastnet2ip.py: the command line and what it names
    input_source,  \* fastnet2ip.py: the chunks the file iterator has still to give
    udp_socket,    \* fastnet2ip.py: "none", "open" or "closed"
    exit_status,   \* fastnet2ip.py: -1 while the process runs, then its exit status
    errors         \* fastnet2ip.py: the calls of logger.error

thread_vars == <<records, live_data_lock, scanner, printer, seen, history>>

bridge_vars == <<frame_queue, sent>>

main_vars == <<in_hand, updates, args, input_source, udp_socket, exit_status, errors>>

(* the variables of the threads of update_live_data and print_live_data   *)
(* and of fastnet2ip.py, which the scanner does not touch                  *)
others == <<thread_vars, bridge_vars, main_vars>>

vars == <<others, dec, stream, wire, raw_queue, buffer, pc, live_data, output_queue,
          utcnow, log, handed>>

ScannerIdle ==
    [pc |-> "idle", channel_name |-> "", raw_value |-> 0, timestamp |-> 0,
     target |-> 0]

PrinterIdle ==
    [pc |-> "sleep", size |-> 0, index |-> 0, items |-> <<>>, value |-> 0]

ThreadsIdle ==
    /\ records = <<>>
    /\ live_data_lock = "free"
    /\ scanner = ScannerIdle
    /\ printer = PrinterIdle
    /\ seen = {}
    /\ history = <<>>

(* the command line: --serial and --file ("" when not given), whether the  *)
(* port can be opened, whether the file exists, and the text in the file   *)
Args(serial, opens, file, found, text) ==
    [serial |-> serial, opens |-> opens, file |-> file, found |-> found, text |-> text]

NoArgs == Args("", FALSE, "", FALSE, <<>>)

MainIdle ==
    /\ in_hand = <<>>
    /\ updates = <<>>
    /\ args = NoArgs
    /\ input_source = <<>>
    /\ udp_socket = "none"
    /\ exit_status = -1
    /\ errors = <<>>

BridgeIdle ==
    /\ frame_queue = <<>>
    /\ sent = <<>>
    /\ MainIdle

(* kind, stream offset of the bytes, the bytes *)
Event(kind, at, bytes) == [kind |-> kind, at |-> at, bytes |-> bytes]

(* frame, the body given to the decoder, the triples walked, and how many
   bytes were in the buffer behind the frame *)
Handed(frame, body, triples, following) ==
    [frame |-> frame, body |-> body, triples |-> triples, following |-> following]

NothingHanded == Handed(<<>>, <<>>, <<>>, 0)

(* a call that takes the divisor bits from the channel id *)
Decoded_divisor_of_channel(channel_id, format_byte, data_bytes, encoded) ==
    [channel_id |-> channel_id, format_byte |-> format_byte,
     data_bytes |-> data_bytes, encoded |-> encoded, called |-> TRUE,
     result |-> decode_format_and_data(channel_id,
                                       (channel_id % 4) * 64 + (format_byte % 64),
                                       data_bytes)]

(* a call that reads the payload of format 0x02 as one 16-bit value *)
Decoded_segment_in_value(channel_id, format_byte, data_bytes, encoded) ==
    [channel_id |-> channel_id, format_byte |-> format_byte,
     data_bytes |-> data_bytes, encoded |-> encoded, called |-> TRUE,
     result |-> decode_format_and_data(channel_id,
                                       IF format_byte % 16 = 2 THEN format_byte - 1
                                       ELSE format_byte,
                                       data_bytes)]

(* a call of the decoder: its arguments, the raw values the payload was   *)
(* encoded from (when it was), and what the call returned                 *)
Decoded(channel_id, format_byte, data_bytes, encoded) ==
    [channel_id |-> channel_id, format_byte |-> format_byte,
     data_bytes |-> data_bytes, encoded |-> encoded, called |-> TRUE,
     result |-> decode_format_and_data(channel_id, format_byte, data_bytes)]

NoDecode ==
    [channel_id |-> 0, format_byte |-> 0, data_bytes |-> <<>>, encoded |-> <<>>,
     called |-> FALSE, result |-> NoResult]

(* Bytes appended to the buffer so far, and the stream offset of buffer[0]. *)
AppendedLen == Len(stream) - Len(wire) - Len(Flatten(raw_queue))
Appended == SubSeq(stream, 1, AppendedLen)
Base == AppendedLen - Len(buffer)

Init ==
    /\ stream \in Streams
    /\ wire = stream
    /\ raw_queue = <<>>
    /\ buffer = <<>>
    /\ pc = "get"
    /\ live_data = EmptyLive
    /\ output_queue = <<>>
    /\ utcnow = 0
    /\ log = <<>>
    /\ handed = NothingHanded
    /\ dec = NoDecode
    /\ ThreadsIdle
    /\ BridgeIdle

(* ---------------------------------------------------------------------- *)
(* serial_reader: data = ser.read(ser.in_waiting or 256); raw_queue.put    *)
(* ---------------------------------------------------------------------- *)
SerialRead(n) ==
    /\ n <= Len(wire)
    /\ Len(raw_queue) < MaxRawQueue
    /\ raw_queue' = Append(raw_queue, SubSeq(wire, 1, n))
    /\ wire' = SubSeq(wire, n + 1, Len(wire))
    /\ UNCHANGED <<others, dec, stream, buffer, pc, live_data, output_queue, utcnow, log, handed>>

ClockTick ==
    /\ utcnow < MaxClock
    /\ utcnow' = utcnow + 1
    /\ UNCHANGED <<others, dec, stream, wire, raw_queue, buffer, pc, live_data, output_queue,
                   log, handed>>

(* ---------------------------------------------------------------------- *)
(* frame_scanner                                                           *)
(* ---------------------------------------------------------------------- *)
header_checksum_ok(buf) == calculate_checksum(Slice(buf, 0, 4)) = buf[5]

full_frame_length_without_checksum(buf) == 5 + buf[3]

full_frame_length(buf) == 5 + buf[3] + 1

body_checksum_unchecked(buf) == TRUE

body_checksum_ok(buf) ==
    calculate_checksum(Slice(buf, 5, full_frame_length(buf) - 1))
        = buf[full_frame_length(buf)]

(* data = raw_queue.get(timeout=1); buffer.extend(data) *)
ScannerGet ==
    /\ pc = "get"
    /\ raw_queue # <<>>
    /\ buffer' = buffer \o Head(raw_queue)
    /\ raw_queue' = Tail(raw_queue)
    /\ pc' = "scan"
    /\ UNCHANGED <<others, dec, stream, wire, live_data, output_queue, utcnow, log, handed>>

(* while len(buffer) >= 6 is false *)
ScanShort ==
    /\ pc = "scan"
    /\ Len(buffer) < 6
    /\ pc' = "get"
    /\ UNCHANGED <<others, dec, stream, wire, raw_queue, buffer, live_data, output_queue, utcnow,
                   log, handed>>

HeaderMismatch ==
    /\ pc = "scan"
    /\ Len(buffer) >= 6
    /\ ~header_checksum_ok(buffer)
    /\ buffer' = Tail(buffer)                                      \* buffer.pop(0)
    /\ log' = Append(log, Event("header", Base, <<Head(buffer)>>))
    /\ UNCHANGED <<others, dec, stream, wire, raw_queue, pc, live_data, output_queue, utcnow,
                   handed>>

(* len(buffer) < full_frame_length: break *)
Incomplete ==
    /\ pc = "scan"
    /\ Len(buffer) >= 6
    /\ header_checksum_ok(buffer)
    /\ Len(buffer) < full_frame_length(buffer)
    /\ pc' = "get"
    /\ UNCHANGED <<others, dec, stream, wire, raw_queue, buffer, live_data, output_queue, utcnow,
                   log, handed>>

(* "Body checksum mismatch. Dropping frame.": buffer.pop(0) *)
drop_claimed_frame(buf) == Slice(buf, full_frame_length(buf), Len(buf))

drop_on_body_mismatch(buf) == Tail(buf)

BodyMismatch ==
    /\ pc = "scan"
    /\ Len(buffer) >= 6
    /\ header_checksum_ok(buffer)
    /\ Len(buffer) >= full_frame_length(buffer)
    /\ ~body_checksum_ok(buffer)
    /\ buffer' = drop_on_body_mismatch(buffer)
    /\ log' = Append(log, Event("body", Base, <<Head(buffer)>>))
    /\ UNCHANGED <<others, dec, stream, wire, raw_queue, pc, live_data, output_queue, utcnow,
                   handed>>

ValidFrame ==
    /\ pc = "scan"
    /\ Len(buffer) >= 6
    /\ header_checksum_ok(buffer)
    /\ Len(buffer) >= full_frame_length(buffer)
    /\ body_checksum_ok(buffer)

(* frame = buffer[:full_frame_length] *)
FrontFrame == Slice(buffer, 0, full_frame_length(buffer))

(* buffer = buffer[full_frame_length:] *)
Advance == buffer' = Slice(buffer, full_frame_length(buffer), Len(buffer))

(* command == 0x01: process_frame(frame) *)
FrameBroadcast ==
    /\ ValidFrame
    /\ buffer[4] = 1
    /\ LET frame == FrontFrame
           triples == process_frame_triples(frame)
           after == update_live_data(UpdatesOf(triples), live_data, output_queue,
                                     utcnow)
       IN  /\ live_data' = after.live
           /\ output_queue' = after.out
           /\ handed' = Handed(frame, process_frame_body(frame), triples,
                                Len(buffer) - Len(frame))
           /\ log' = Append(log, Event("frame", Base, frame))
    /\ Advance
    /\ UNCHANGED <<others, dec, stream, wire, raw_queue, pc, utcnow>>

(* command == 0x03: process_ascii_frame(frame) returns *)
FrameAscii ==
    /\ ValidFrame
    /\ buffer[4] = 3
    /\ ~process_ascii_frame_raises(FrontFrame)
    /\ LET frame == FrontFrame
           after == update_live_data(process_ascii_frame_updates(frame), live_data,
                                     output_queue, utcnow)
       IN  /\ live_data' = after.live
           /\ output_queue' = after.out
           /\ handed' = Handed(frame, Slice(frame, 7, Len(frame) - 1), <<>>,
                                Len(buffer) - Len(frame))
           /\ log' = Append(log, Event("frame", Base, frame))
    /\ Advance
    /\ UNCHANGED <<others, dec, stream, wire, raw_queue, pc, utcnow>>

(* command == 0x03 and process_ascii_frame raises IndexError: the handler  *)
(* of the outer loop logs it and the loop goes back to raw_queue.get; the  *)
(* line that removes the frame from the buffer is not reached.             *)
FrameAsciiRaises ==
    /\ ValidFrame
    /\ buffer[4] = 3
    /\ process_ascii_frame_raises(FrontFrame)
    /\ handed' = Handed(FrontFrame, <<>>, <<>>, Len(buffer) - Len(FrontFrame))
    /\ log' = Append(log, Event("frame", Base, FrontFrame))
    /\ pc' = "get"
    /\ UNCHANGED <<others, dec, stream, wire, raw_queue, buffer, live_data, output_queue, utcnow>>

(* a scanner that gives the frames of every other command to process_frame *)
FrameIgnored_decoded ==
    /\ ValidFrame
    /\ buffer[4] # 1
    /\ buffer[4] # 3
    /\ LET frame == FrontFrame
           triples == process_frame_triples(frame)
           after == update_live_data(UpdatesOf(triples), live_data, output_queue,
                                     utcnow)
       IN  /\ live_data' = after.live
           /\ output_queue' = after.out
           /\ log' = Append(log, Event("ignored", Base, frame))
    /\ Advance
    /\ UNCHANGED <<others, dec, stream, wire, raw_queue, pc, utcnow, handed>>

(* any other command: the frame is only removed *)
FrameIgnored ==
    /\ ValidFrame
    /\ buffer[4] # 1
    /\ buffer[4] # 3
    /\ log' = Append(log, Event("ignored", Base, FrontFrame))
    /\ Advance
    /\ UNCHANGED <<others, dec, stream, wire, raw_queue, pc, live_data, output_queue, utcnow,
                   handed>>

Next ==
    \/ \E n \in 1..MaxChunk : SerialRead(n)
    \/ ClockTick
    \/ ScannerGet
    \/ ScanShort
    \/ HeaderMismatch
    \/ Incomplete
    \/ BodyMismatch
    \/ FrameBroadcast
    \/ FrameAscii
    \/ FrameAsciiRaises
    \/ FrameIgnored

Spec == Init /\ [][Next]_vars

(* ====================================================================== *)
(* Properties                                                              *)
(* ====================================================================== *)

(* The checksum as the protocol defines it: the byte that makes the sum of *)
(* the block and the checksum a multiple of 256.                           *)
ChecksumMatches(data, c) == c \in Byte /\ (SumBytes(data) + c) % 256 = 0

(* s holds, from 0-based offset o on, five bytes of which the fifth is the *)
(* checksum of the first four.                                             *)
HeaderOkAt(s, o) ==
    /\ o + 5 <= Len(s)
    /\ ChecksumMatches(SubSeq(s, o + 1, o + 4), s[o + 5])

ClaimedLength(s, o) == 6 + s[o + 3]

BodyOkAt(s, o) ==
    /\ o + ClaimedLength(s, o) <= Len(s)
    /\ ChecksumMatches(SubSeq(s, o + 6, o + ClaimedLength(s, o) - 1),
                       s[o + ClaimedLength(s, o)])

ValidFrameAt(s, o) == HeaderOkAt(s, o) /\ BodyOkAt(s, o)

FrameAt(s, o) == SubSeq(s, o + 1, o + ClaimedLength(s, o))

IsFrameEvent(e) == e.kind \in {"frame", "ignored"}
IsDropEvent(e) == e.kind \in {"header", "body"}

Emitted == [i \in 1..Len(SelectSeq(log, IsFrameEvent)) |->
               SelectSeq(log, IsFrameEvent)[i].bytes]
Dropped == Flatten([i \in 1..Len(SelectSeq(log, IsDropEvent)) |->
                       SelectSeq(log, IsDropEvent)[i].bytes])

EmittedAt(o) ==
    \E j \in 1..Len(log) :
        IsFrameEvent(log[j]) /\ log[j].at = o /\ log[j].bytes = FrameAt(stream, o)

(* Every byte has arrived and the scanner waits for more. *)
Quiescent == wire = <<>> /\ raw_queue = <<>> /\ pc = "get"

(* ---------------------------------------------------------------------- *)
(* C1: every frame the scanner accepts (handed to a decoder, or ignored    *)
(* for its command) has 6 + body_size bytes, its byte at offset 4 is the   *)
(* checksum of bytes 0..3 and its last byte the checksum of its body.      *)
(* ---------------------------------------------------------------------- *)
C1_EmittedFramesValid ==
    \A i \in 1..Len(log) :
        IsFrameEvent(log[i]) =>
            LET f == log[i].bytes
            IN  /\ Len(f) = 6 + f[3]
                /\ ChecksumMatches(SubSeq(f, 1, 4), f[5])
                /\ ChecksumMatches(SubSeq(f, 6, 5 + f[3]), f[Len(f)])

(* a frame with a body is handed on after a header matched by accident *)
C1_Witness ==
    \E i \in 1..Len(log) :
        /\ log[i].kind = "frame"
        /\ Len(log[i].bytes) > 6
        /\ \E j \in 1..(i - 1) : log[j].kind = "body"

(* ---------------------------------------------------------------------- *)
(* C2 as stated: whenever the stream is garbage G followed by one valid    *)
(* frame F, the scan of all of it emits F alone and drops the bytes of G.  *)
(* ---------------------------------------------------------------------- *)
IsGarbageThenFrame(k) ==
    /\ ValidFrameAt(stream, k)
    /\ k + ClaimedLength(stream, k) = Len(stream)

ResyncResult(k) ==
    /\ Emitted = <<FrameAt(stream, k)>>
    /\ Dropped = SubSeq(stream, 1, k)

C2_Original ==
    \A k \in 0..Len(stream) :
        (Quiescent /\ k + 6 <= Len(stream) /\ IsGarbageThenFrame(k))
            => ResyncResult(k)

(* C2, amended: the same, for garbage G of which no offset passes the      *)
(* header checksum on the bytes of G followed by F.                        *)
NonMatching(k) == \A i \in 0..(k - 1) : ~HeaderOkAt(stream, i)

C2_ResyncNonMatching ==
    \A k \in 0..Len(stream) :
        (Quiescent /\ k + 6 <= Len(stream) /\ IsGarbageThenFrame(k)
           /\ NonMatching(k))
            => ResyncResult(k)

C2_Witness ==
    /\ Quiescent
    /\ \E k \in 1..Len(stream) :
          /\ k + 6 <= Len(stream)
          /\ IsGarbageThenFrame(k)
          /\ NonMatching(k)
          /\ ResyncResult(k)

(* ---------------------------------------------------------------------- *)
(* C3 as stated: a step of the scanner on a buffer that begins with a      *)
(* frame with two valid checksums removes the 6 + body_size bytes of the   *)
(* frame and stays in the scan loop, whatever handling the frame does.     *)
(* ---------------------------------------------------------------------- *)
C3_Step ==
    (pc = "scan" /\ ValidFrameAt(buffer, 0) /\ log' # log)
        => /\ buffer' = SubSeq(buffer, ClaimedLength(buffer, 0) + 1, Len(buffer))
           /\ pc' = "scan"

C3_FrameAlwaysConsumed == [][C3_Step]_vars

(* ---------------------------------------------------------------------- *)
(* C4 as stated: after a body-checksum failure at offset a the scanner     *)
(* drops one byte, and once all input is scanned every valid frame that    *)
(* lay behind a inside the bytes the failed header claimed (all of them    *)
(* buffered at the time) has been emitted.                                 *)
(* ---------------------------------------------------------------------- *)
C4_Original ==
    Quiescent =>
        \A j \in 1..Len(log) :
            log[j].kind = "body" =>
                LET a == log[j].at
                    claimed == a + ClaimedLength(stream, a)
                IN  \A o \in (a + 1)..(claimed - 6) :
                        (ValidFrameAt(stream, o)
                           /\ o + ClaimedLength(stream, o) <= claimed)
                            => EmittedAt(o)

(* C4, amended: the scanner drops exactly the one byte at a and goes on at *)
(* a + 1; a valid frame at a later offset o has been emitted once all      *)
(* input is scanned, provided every offset between a and o fails a         *)
(* checksum (the header's, or the body's with the claimed bytes there).    *)
FailsChecksum(i) ==
    \/ ~HeaderOkAt(stream, i)
    \/ /\ i + ClaimedLength(stream, i) <= Len(stream)
       /\ ~BodyOkAt(stream, i)

C4_OneByteResync ==
    \A j \in 1..Len(log) :
        log[j].kind = "body" =>
            LET a == log[j].at
            IN  /\ log[j].bytes = <<stream[a + 1]>>
                /\ j < Len(log) => log[j + 1].at = a + 1
                /\ Base >= a + 1
                /\ Quiescent =>
                     \A o \in (a + 1)..(Len(stream) - 6) :
                        (ValidFrameAt(stream, o)
                           /\ \A i \in (a + 1)..(o - 1) : FailsChecksum(i))
                            => EmittedAt(o)

C4_Witness ==
    /\ Quiescent
    /\ \E j \in 1..Len(log) :
          /\ log[j].kind = "body"
          /\ \E m \in (j + 1)..Len(log) :
                log[m].kind = "frame" /\ log[m].at > log[j].at

(* ---------------------------------------------------------------------- *)
(* C5 as stated: the bytes appended so far are, in arrival order, the      *)
(* bytes of the emitted frames and of the single bytes dropped after a     *)
(* checksum failure, followed by the bytes still in the buffer.            *)
(* ---------------------------------------------------------------------- *)
C5_NoByteUnaccounted ==
    /\ Flatten([i \in 1..Len(log) |-> log[i].bytes]) \o buffer = Appended
    /\ \A i \in 1..Len(log) : IsDropEvent(log[i]) => Len(log[i].bytes) = 1

(* ---------------------------------------------------------------------- *)
(* The decoder on its own: decode_format_and_data called on payloads that  *)
(* encode every 16-bit value, and on sample bytes for every format byte.   *)
(* ---------------------------------------------------------------------- *)
SampleBytes == {0, 91, 128, 255}
SampleRaw == {-32768, -450, -1, 0, 1, 91, 32767}
SampleChannels == {65, 89}

(* the big-endian two's-complement bytes of r, -32768 <= r <= 32767 *)
Encode16(r) == <<((r + 65536) % 65536) \div 256, ((r + 65536) % 65536) % 256>>

(* a call about to be made: its arguments and what they were encoded from *)
Call(channel_id, format_byte, data_bytes, encoded) ==
    [channel_id |-> channel_id, format_byte |-> format_byte,
     data_bytes |-> data_bytes, encoded |-> encoded, called |-> FALSE,
     result |-> NoResult]

(* format 0x01 on the bytes of every 16-bit value, format 0x0A on pairs   *)
(* of sample values, and every format byte on two or four sample bytes    *)
IsCall(d) ==
    \/ \E r \in -32768..32767, dd \in 0..3 :
          d = Call(65, dd * 64 + 1, Encode16(r), <<r>>)
    \/ \E r1 \in SampleRaw, r2 \in SampleRaw, dd \in 0..3 :
          d = Call(65, dd * 64 + 10, Encode16(r1) \o Encode16(r2), <<r1, r2>>)
    \/ \E c \in SampleChannels, fb \in Byte, n \in {0, 2, 4},
          bytes \in [1..4 -> SampleBytes] :
          d = Call(c, fb, SubSeq(bytes, 1, n), <<>>)

InitDecode ==
    /\ stream = <<>>
    /\ wire = <<>>
    /\ raw_queue = <<>>
    /\ buffer = <<>>
    /\ pc = "get"
    /\ live_data = EmptyLive
    /\ output_queue = <<>>
    /\ utcnow = 0
    /\ log = <<>>
    /\ handed = NothingHanded
    /\ IsCall(dec)
    /\ ThreadsIdle
    /\ BridgeIdle

Decode ==
    /\ ~dec.called
    /\ dec' = Decoded(dec.channel_id, dec.format_byte, dec.data_bytes, dec.encoded)
    /\ UNCHANGED <<others, stream, wire, raw_queue, buffer, pc, live_data,
                   output_queue, utcnow, log, handed>>

NextDecode == Decode

SpecDecode == InitDecode /\ [][NextDecode]_vars

(* ---------------------------------------------------------------------- *)
(* What the frame format says of a broadcast body, read from the frame's   *)
(* bytes alone: the payload length of each format nibble, and the triples  *)
(* found by walking the body_size bytes behind the header.                 *)
(* ---------------------------------------------------------------------- *)
PayloadLength(f) ==
    CASE f \in {1, 2, 3, 8} -> 2
      [] f \in {0, 4, 5, 6, 7, 10} -> 4
      [] OTHER -> -1

HasDecoder(f) == f \in (1..8) \cup {10}

RefBody(frame) == SubSeq(frame, 6, 5 + frame[3])

RECURSIVE RefTriples(_)
RefTriples(body) ==
    IF Len(body) < 2 \/ PayloadLength(body[2] % 16) < 0
       \/ Len(body) < 2 + PayloadLength(body[2] % 16)
    THEN <<>>
    ELSE LET n == PayloadLength(body[2] % 16)
         IN  <<[channel_id |-> body[1], format_byte |-> body[2],
                data_bytes |-> SubSeq(body, 3, 2 + n)]>>
             \o RefTriples(SubSeq(body, 3 + n, Len(body)))

TripleBytes(triples) ==
    Flatten([i \in 1..Len(triples) |->
                <<triples[i].channel_id, triples[i].format_byte>>
                \o triples[i].data_bytes])

(* the bytes of the body behind the triples *)
RefRest(body) == SubSeq(body, Len(TripleBytes(RefTriples(body))) + 1, Len(body))

RefTruncated(body) ==
    LET rest == RefRest(body)
    IN  \/ Len(rest) = 1
        \/ /\ Len(rest) >= 2
           /\ PayloadLength(rest[2] % 16) >= 0

RefStopsAtUnknown(body) ==
    LET rest == RefRest(body)
    IN  Len(rest) >= 2 /\ PayloadLength(rest[2] % 16) < 0

RefSkips(body) ==
    \E i \in 1..Len(RefTriples(body)) : RefTriples(body)[i].format_byte % 16 = 0

RefDecodes(t) == HasDecoder(t.format_byte % 16)
RefName(t) == CHANNEL_LOOKUP(t.channel_id, "process_frame")
RefValue(t) == decode_format_and_data(t.channel_id, t.format_byte, t.data_bytes).interpreted

(* every triple with a decoder is in the store, the last of a channel wins *)
RefStored(ref, live) ==
    \A i \in 1..Len(ref) :
        RefDecodes(ref[i]) =>
            /\ RefName(ref[i]) \in DOMAIN live
            /\ \E j \in i..Len(ref) :
                  /\ RefDecodes(ref[j])
                  /\ RefName(ref[j]) = RefName(ref[i])
                  /\ live[RefName(ref[i])].value = RefValue(ref[j])
                  /\ \A k \in (j + 1)..Len(ref) :
                        ~(RefDecodes(ref[k]) /\ RefName(ref[k]) = RefName(ref[i]))

(* nothing else was written to the store *)
RefOnly(ref, before, after) ==
    \A n \in DOMAIN after :
        \/ \E i \in 1..Len(ref) : RefDecodes(ref[i]) /\ RefName(ref[i]) = n
        \/ n \in DOMAIN before /\ after[n] = before[n]

IsBroadcastHanded == handed.frame # <<>> /\ handed.frame[4] = 1

(* this step hands a broadcast frame to process_frame *)
HandsBroadcast ==
    /\ Len(log') = Len(log) + 1
    /\ log'[Len(log')].kind = "frame"
    /\ log'[Len(log')].bytes[4] = 1

HandedFrame == log'[Len(log')].bytes

(* C6: the body handed to the broadcast decoder has exactly body_size      *)
(* bytes, the bytes 5 .. 5+body_size-1 of the frame; the bytes decoded as  *)
(* channel triples lie inside them: neither the header checksum, the body  *)
(* checksum nor a byte of a following frame is part of a triple.           *)
C6_BodyIsExactlyBodySize ==
    IsBroadcastHanded =>
        LET frame == handed.frame
            walked == TripleBytes(handed.triples)
        IN  /\ Len(handed.body) = frame[3]
            /\ handed.body = SubSeq(frame, 6, 5 + frame[3])
            /\ Len(walked) <= frame[3]
            /\ walked = SubSeq(frame, 6, 5 + Len(walked))

(* a frame of two triples is decoded while bytes of the next frame are      *)
(* already in the buffer behind it                                         *)
C6_Witness ==
    /\ IsBroadcastHanded
    /\ Len(handed.triples) >= 2
    /\ handed.following > 0

C7_Step ==
    HandsBroadcast /\ (RefSkips(RefBody(HandedFrame))
                       \/ RefStopsAtUnknown(RefBody(HandedFrame))) =>
        /\ RefStored(RefTriples(RefBody(HandedFrame)), live_data')
        /\ RefOnly(RefTriples(RefBody(HandedFrame)), live_data, live_data')

C8_Step ==
    HandsBroadcast /\ RefTruncated(RefBody(HandedFrame)) =>
        /\ RefStored(RefTriples(RefBody(HandedFrame)), live_data')
        /\ RefOnly(RefTriples(RefBody(HandedFrame)), live_data, live_data')
        /\ buffer' = SubSeq(buffer, Len(HandedFrame) + 1, Len(buffer))
        /\ SubSeq(buffer, 1, Len(HandedFrame)) = HandedFrame

C8_TruncatedTripleStops == [][C8_Step]_vars

(* a frame with a truncated last triple was handed on: the triple before   *)
(* it is stored, the channel of the truncated one is not                   *)
C8_Witness ==
    /\ IsBroadcastHanded
    /\ RefTruncated(RefBody(handed.frame))
    /\ handed.triples # <<>>
    /\ \A i \in 1..Len(handed.triples) :
          /\ handed.triples[i].result.ok
          /\ RefName(handed.triples[i]) \in DOMAIN live_data
    /\ CHANNEL_LOOKUP(RefRest(RefBody(handed.frame))[1], "process_frame")
          \notin DOMAIN live_data
    /\ Len(buffer) = handed.following

(* C9 as stated: the triple 41 01 00 5B is stored as Boatspeed (Knots)     *)
(* = 9.1, raw 91 over a divisor of 10.                                     *)
C9_Original ==
    handed.frame = FrameS1 =>
        /\ "Boatspeed (Knots)" \in DOMAIN live_data
        /\ live_data["Boatspeed (Knots)"].value.kind = "num"
        /\ live_data["Boatspeed (Knots)"].value.v[1] * 10
              = 91 * live_data["Boatspeed (Knots)"].value.den

(* C9, amended: the DD bits (7..6) of format byte 0x01 are 00, so the      *)
(* triple 41 01 00 5B is decoded with divisor 1 and raw 91 is stored as    *)
(* Boatspeed (Knots) = 91.                                                 *)
C9_StoredWithDivisorOne ==
    handed.frame = FrameS1 =>
        /\ Len(handed.triples) = 1
        /\ handed.triples[1].channel_id = 65
        /\ handed.triples[1].data_bytes = <<0, 91>>
        /\ handed.triples[1].result.divisor = 1
        /\ "Boatspeed (Knots)" \in DOMAIN live_data
        /\ live_data["Boatspeed (Knots)"].value.kind = "num"
        /\ live_data["Boatspeed (Knots)"].value.v[1]
              = 91 * live_data["Boatspeed (Knots)"].value.den

C9_Witness ==
    /\ handed.frame = FrameS1
    /\ "Boatspeed (Knots)" \in DOMAIN live_data

(* C10: for every 16-bit raw value R and every divisor D in                *)
(* {1, 10, 100, 1000}, format 0x01 on the big-endian two's-complement      *)
(* bytes of R yields R/D with the sign of R; format 0x0A yields the pair   *)
(* (R1/D, R2/D) of its two halves; no other format yields a negative value *)
TenTo(dd) == CASE dd = 0 -> 1 [] dd = 1 -> 10 [] dd = 2 -> 100 [] dd = 3 -> 1000

C10_SignedRoundTrip ==
    dec.called =>
        LET D == TenTo((dec.format_byte \div 64) % 4)
            r == dec.result
        IN  /\ Len(dec.encoded) = 1 =>
                  r.ok /\ r.interpreted = Val("num", <<dec.encoded[1]>>, D)
            /\ Len(dec.encoded) = 2 =>
                  r.ok /\ r.interpreted = Val("pair", dec.encoded, D)
            /\ r.ok /\ dec.format_byte % 16 \notin {1, 10} =>
                  /\ r.interpreted.den > 0
                  /\ \A i \in DOMAIN r.interpreted.v : r.interpreted.v[i] >= 0

(* a negative raw value came back negative, over a divisor of 10 *)
C10_Witness ==
    /\ dec.called
    /\ dec.encoded = <<-450>>
    /\ dec.format_byte = 65
    /\ dec.result.interpreted = Val("num", <<-450>>, 10)

(* ---------------------------------------------------------------------- *)
(* The threads that share live_data in fn2ip.py: frame_scanner inside      *)
(* update_live_data, and print_live_data.  Here live_data maps a channel   *)
(* name to a reference into records, the dict objects; each step is one    *)
(* access to a shared object.                                              *)
(* ---------------------------------------------------------------------- *)
MaxUpdates == 2      \* calls of update_live_data
MaxTime == 2         \* ticks of the wall clock

ThreadChannels == <<"Boatspeed (Knots)", "Heading">>     \* in sorted() order
ThreadValues == {42, 91}

Unset == [value |-> -1, timestamp |-> -1]

InitThreads ==
    /\ stream = <<>>
    /\ wire = <<>>
    /\ raw_queue = <<>>
    /\ buffer = <<>>
    /\ pc = "scan"
    /\ live_data = EmptyLive
    /\ output_queue = <<>>
    /\ utcnow = 0
    /\ log = <<>>
    /\ handed = NothingHanded
    /\ dec = NoDecode
    /\ ThreadsIdle
    /\ BridgeIdle

ScanUntouched ==
    UNCHANGED <<bridge_vars, main_vars, dec, stream, wire, raw_queue, buffer, pc, output_queue,
                log, handed>>

TimePasses ==
    /\ utcnow < MaxTime
    /\ utcnow' = utcnow + 1
    /\ UNCHANGED <<thread_vars, live_data>>
    /\ ScanUntouched

(* process_frame calls update_live_data(channel_name, interpreted_value) *)
UpdateCall(channel_name, raw_value) ==
    /\ scanner.pc = "idle"
    /\ Len(history) < MaxUpdates
    /\ scanner' = [ScannerIdle EXCEPT !.pc = "utcnow", !.channel_name = channel_name,
                                      !.raw_value = raw_value]
    /\ UNCHANGED <<records, live_data_lock, printer, seen, history, live_data, utcnow>>
    /\ ScanUntouched

timestamp_time_of_day(now) == now % 2

(* datetime.datetime.utcnow().isoformat(): later instants give later stamps *)
timestamp_isoformat(now) == now

(* timestamp = datetime.datetime.utcnow().isoformat() *)
UpdateTimestamp ==
    /\ scanner.pc = "utcnow"
    /\ scanner' = [scanner EXCEPT !.pc = "dict", !.timestamp = timestamp_isoformat(utcnow)]
    /\ UNCHANGED <<records, live_data_lock, printer, seen, history, live_data, utcnow>>
    /\ ScanUntouched

update_target_in_place(live, channel_name, fresh) ==
    IF channel_name \in DOMAIN live THEN live[channel_name] ELSE fresh

(* {"value": raw_value, "timestamp": timestamp} is a new dict object *)
update_target(live, channel_name, fresh) == fresh

UpdateNewDict ==
    /\ scanner.pc = "dict"
    /\ LET target == update_target(live_data, scanner.channel_name, Len(records) + 1)
       IN  /\ scanner' = [scanner EXCEPT !.pc = "value", !.target = target]
           /\ records' = IF target > Len(records) THEN Append(records, Unset)
                         ELSE records
    /\ UNCHANGED <<live_data_lock, printer, seen, history, live_data, utcnow>>
    /\ ScanUntouched

UpdateSetValue ==
    /\ scanner.pc = "value"
    /\ records' = [records EXCEPT ![scanner.target].value = scanner.raw_value]
    /\ scanner' = [scanner EXCEPT !.pc = "timestamp"]
    /\ UNCHANGED <<live_data_lock, printer, seen, history, live_data, utcnow>>
    /\ ScanUntouched

UpdateSetTimestamp ==
    /\ scanner.pc = "timestamp"
    /\ records' = [records EXCEPT ![scanner.target].timestamp = scanner.timestamp]
    /\ scanner' = [scanner EXCEPT !.pc = "store"]
    /\ UNCHANGED <<live_data_lock, printer, seen, history, live_data, utcnow>>
    /\ ScanUntouched

(* live_data[channel_name] = ...: no lock is taken *)
UpdateStore ==
    /\ scanner.pc = "store"
    /\ live_data' = [n \in DOMAIN live_data \cup {scanner.channel_name} |->
                        IF n = scanner.channel_name THEN scanner.target
                        ELSE live_data[n]]
    /\ history' = Append(history, [channel_name |-> scanner.channel_name,
                                   value |-> scanner.raw_value,
                                   timestamp |-> scanner.timestamp])
    /\ scanner' = ScannerIdle
    /\ UNCHANGED <<records, live_data_lock, printer, seen, utcnow>>
    /\ ScanUntouched

(* print_live_data: with live_data_lock: *)
PrinterAcquire ==
    /\ printer.pc = "sleep"
    /\ live_data_lock = "free"
    /\ live_data_lock' = "printer"
    /\ printer' = [printer EXCEPT !.pc = "check"]
    /\ UNCHANGED <<records, scanner, seen, history, live_data, utcnow>>
    /\ ScanUntouched

(* if not live_data: "Live Data is empty." and the lock is released *)
PrinterEmpty ==
    /\ printer.pc = "check"
    /\ DOMAIN live_data = {}
    /\ live_data_lock' = "free"
    /\ printer' = PrinterIdle
    /\ UNCHANGED <<records, scanner, seen, history, live_data, utcnow>>
    /\ ScanUntouched

(* max(len(key) for key in live_data.keys()): the iterator is created *)
PrinterKeys ==
    /\ printer.pc = "check"
    /\ DOMAIN live_data # {}
    /\ printer' = [printer EXCEPT !.pc = "keys",
                                  !.size = Cardinality(DOMAIN live_data),
                                  !.index = 0]
    /\ UNCHANGED <<records, live_data_lock, scanner, seen, history, live_data, utcnow>>
    /\ ScanUntouched

(* one next() of the key iterator; the last one ends the generator *)
PrinterKeysNext ==
    /\ printer.pc = "keys"
    /\ Cardinality(DOMAIN live_data) = printer.size
    /\ printer' = IF printer.index < printer.size
                  THEN [printer EXCEPT !.index = printer.index + 1]
                  ELSE [printer EXCEPT !.pc = "items"]
    /\ UNCHANGED <<records, live_data_lock, scanner, seen, history, live_data, utcnow>>
    /\ ScanUntouched

(* next() on a dict whose size changed: RuntimeError, caught outside the   *)
(* while loop, so print_live_data returns and its thread ends              *)
PrinterKeysChanged ==
    /\ printer.pc = "keys"
    /\ Cardinality(DOMAIN live_data) # printer.size
    /\ live_data_lock' = "free"
    /\ printer' = [printer EXCEPT !.pc = "dead"]
    /\ UNCHANGED <<records, scanner, seen, history, live_data, utcnow>>
    /\ ScanUntouched

(* sorted(live_data.items()): the (name, dict) pairs, in name order *)
SortedItems(live) ==
    LET names == SelectSeq(ThreadChannels, LAMBDA n : n \in DOMAIN live)
    IN  [i \in 1..Len(names) |-> <<names[i], live[names[i]]>>]

PrinterItems ==
    /\ printer.pc = "items"
    /\ printer' = [printer EXCEPT !.pc = "value", !.items = SortedItems(live_data)]
    /\ UNCHANGED <<records, live_data_lock, scanner, seen, history, live_data, utcnow>>
    /\ ScanUntouched

(* value = data.get("value", "N/A") *)
PrinterReadValue ==
    /\ printer.pc = "value"
    /\ printer.items # <<>>
    /\ printer' = [printer EXCEPT !.pc = "timestamp",
                                  !.value = records[printer.items[1][2]].value]
    /\ UNCHANGED <<records, live_data_lock, scanner, seen, history, live_data, utcnow>>
    /\ ScanUntouched

(* timestamp = data.get("timestamp", "N/A"), and the row is printed *)
PrinterReadTimestamp ==
    /\ printer.pc = "timestamp"
    /\ seen' = seen \cup {[channel_name |-> printer.items[1][1],
                           value |-> printer.value,
                           timestamp |-> records[printer.items[1][2]].timestamp]}
    /\ printer' = [printer EXCEPT !.pc = "value", !.items = Tail(printer.items)]
    /\ UNCHANGED <<records, live_data_lock, scanner, history, live_data, utcnow>>
    /\ ScanUntouched

(* the end of the with block; time.sleep(1) *)
PrinterRelease ==
    /\ printer.pc = "value"
    /\ printer.items = <<>>
    /\ live_data_lock' = "free"
    /\ printer' = PrinterIdle
    /\ UNCHANGED <<records, scanner, seen, history, live_data, utcnow>>
    /\ ScanUntouched

NextThreads ==
    \/ TimePasses
    \/ \E i \in 1..Len(ThreadChannels), v \in ThreadValues :
          UpdateCall(ThreadChannels[i], v)
    \/ UpdateTimestamp
    \/ UpdateNewDict
    \/ UpdateSetValue
    \/ UpdateSetTimestamp
    \/ UpdateStore
    \/ PrinterAcquire
    \/ PrinterEmpty
    \/ PrinterKeys
    \/ PrinterKeysNext
    \/ PrinterKeysChanged
    \/ PrinterItems
    \/ PrinterReadValue
    \/ PrinterReadTimestamp
    \/ PrinterRelease

SpecThreads == InitThreads /\ [][NextThreads]_vars

(* C11: under every interleaving of the decoding thread with the printer,  *)
(* the value and the timestamp the printer reads for a channel come from   *)
(* one single update: every row it read is an update that was stored.      *)
C11_NoHalfUpdatedRecord ==
    \A row \in seen : \E i \in 1..Len(history) : history[i] = row

(* the printer has read the value of a row and not yet its timestamp, and  *)
(* the scanner has replaced that channel's record in between               *)
C11_Witness ==
    /\ printer.pc = "timestamp"
    /\ live_data[printer.items[1][1]] # printer.items[1][2]
    /\ records[live_data[printer.items[1][1]]].value # printer.value
    /\ records[live_data[printer.items[1][1]]].timestamp
          # records[printer.items[1][2]].timestamp

(* C12: every mutation of the live-data map is made while holding          *)
(* live_data_lock, so no entry is inserted or replaced while another       *)
(* thread is inside a lock-held read of the map.                           *)
C12_MutationsUnderLock ==
    [][live_data' # live_data => live_data_lock # "printer"]_vars

(* C13: for each channel, the timestamp of its record never decreases,     *)
(* for every sequence of updates (the wall clock is not set back).         *)
C13_Step ==
    \A n \in DOMAIN live_data :
        /\ n \in DOMAIN live_data'
        /\ records'[live_data'[n]].timestamp >= records[live_data[n]].timestamp

C13_TimestampsNonDecreasing == [][C13_Step]_vars

(* a channel was stored twice, the second time at a later instant *)
C13_Witness ==
    \E i \in 1..Len(history), j \in 1..Len(history) :
        /\ i < j
        /\ history[i].channel_name = history[j].channel_name
        /\ history[i].timestamp < history[j].timestamp
        /\ records[live_data[history[j].channel_name]].timestamp
              = history[j].timestamp

(* ---------------------------------------------------------------------- *)
(* fastnet2ip.py.  Text is a sequence of character codes.                  *)
(* ---------------------------------------------------------------------- *)
RECURSIVE Digits(_)
Digits(n) == IF n < 10 THEN <<48 + n>> ELSE Digits(n \div 10) \o <<48 + (n % 10)>>

RECURSIVE Pow(_, _)
Pow(b, e) == IF e = 0 THEN 1 ELSE b * Pow(b, e - 1)

RECURSIVE PowMod(_, _, _)
PowMod(b, e, m) == IF e = 0 THEN 1 % m ELSE (b * PowMod(b, e - 1, m)) % m

(* the largest k, negative when a < den, with 2^k <= a/den *)
RECURSIVE Log2Up(_, _, _)
Log2Up(a, den, k) == IF den * Pow(2, k + 1) <= a THEN Log2Up(a, den, k + 1) ELSE k

RECURSIVE Log2Down(_, _, _)
Log2Down(a, den, j) == IF a * Pow(2, j) < den THEN Log2Down(a, den, j + 1) ELSE j

Log2Floor(a, den) == IF a >= den THEN Log2Up(a, den, 0) ELSE 0 - Log2Down(a, den, 1)

(* a/den lies half way between two decimals: the float nearest to a/den    *)
(* (53-bit mantissa, ties to even) decides; when it is a/den itself the    *)
(* decimal goes to the even digit q                                        *)
TieGoesUp(a, den, q) ==
    LET e == 52 - Log2Floor(a, den)
        r == ((a % den) * PowMod(2, e, den)) % den
        m == ((a % (2 * den)) * PowMod(2, e, 2 * den)) % (2 * den)
    IN  IF r = 0 THEN q % 2 = 1
        ELSE IF 2 * r < den THEN FALSE
        ELSE IF 2 * r > den THEN TRUE
        ELSE m >= den

(* f"{x:.1f}" and f"{x:.2f}" for the float x = num/den *)
format_fixed(num, den, places) ==
    LET a == IF num < 0 THEN 0 - num ELSE num
        scaled == a * Pow(10, places)
        floor == scaled \div den
        r == scaled % den
        q == IF 2 * r > den \/ (2 * r = den /\ TieGoesUp(a, den, floor))
             THEN floor + 1 ELSE floor
        whole == Digits(q \div Pow(10, places))
        frac == Digits(Pow(10, places) + (q % Pow(10, places)))
    IN  (IF num < 0 THEN <<45>> ELSE <<>>) \o whole \o <<46>> \o Tail(frac)

(* a ^ b of two character codes below 256 *)
Xor(a, b) ==
    ((a + b) % 2)
    + 2 * (((a \div 2) + (b \div 2)) % 2)
    + 4 * (((a \div 4) + (b \div 4)) % 2)
    + 8 * (((a \div 8) + (b \div 8)) % 2)
    + 16 * (((a \div 16) + (b \div 16)) % 2)
    + 32 * (((a \div 32) + (b \div 32)) % 2)
    + 64 * (((a \div 64) + (b \div 64)) % 2)
    + 128 * (((a \div 128) + (b \div 128)) % 2)

(* checksum = 0; for char in sentence: checksum ^= ord(char)                *)
(* (the new checksum is bound as a value before the next character)        *)
RECURSIVE XorFrom(_, _, _)
XorFrom(chars, i, checksum) ==
    IF i > Len(chars) THEN checksum
    ELSE CHOOSE result \in {XorFrom(chars, i + 1, next) :
                                next \in {Xor(checksum, chars[i])}} : TRUE

XorAll(chars) == XorFrom(chars, 1, 0)

HexUpper(d) == IF d < 10 THEN 48 + d ELSE 55 + d
HexLower(d) == IF d < 10 THEN 48 + d ELSE 87 + d

calculate_nmea_checksum_lower(sentence) ==
    <<HexLower(XorAll(sentence) \div 16), HexLower(XorAll(sentence) % 16)>>

(* checksum ^= ord(char) for every char; f"{checksum:02X}" *)
calculate_nmea_checksum(sentence) ==
    <<HexUpper(XorAll(sentence) \div 16), HexUpper(XorAll(sentence) % 16)>>

(* f"${body}*{checksum}\n" *)
Wrap(body) == <<36>> \o body \o <<42>> \o calculate_nmea_checksum(body) \o <<10>>

(* ",".join(fields) *)
RECURSIVE Join(_)
Join(fields) ==
    IF fields = <<>> THEN <<>>
    ELSE IF Len(fields) = 1 THEN fields[1]
    ELSE fields[1] \o <<44>> \o Join(Tail(fields))

(* ---------------------------------------------------------------------- *)
(* fastnet2ip.py: the live store.  An entry is the dict                    *)
(* S""channel_id", "interpreted_value", "timestamp"".                       *)
(* ---------------------------------------------------------------------- *)
Entry(channel_id, interpreted_value, timestamp) ==
    [channel_id |-> channel_id, interpreted_value |-> interpreted_value,
     timestamp |-> timestamp]

EmptyStore == [n \in {} |-> Entry(0, None, 0)]

(* live_data[channel_name] = S"..." under live_data_lock *)
store_live_data(live, channel_name, channel_id, interpreted_value, timestamp) ==
    [n \in DOMAIN live \cup {channel_name} |->
        IF n = channel_name
        THEN Entry(channel_id, interpreted_value, timestamp)
        ELSE live[n]]

IsDigit(c) == c >= 48 /\ c <= 57

RECURSIVE DigitsValue(_, _)
DigitsValue(chars, acc) ==
    IF chars = <<>> THEN acc
    ELSE DigitsValue(Tail(chars), acc * 10 + (Head(chars) - 48))

(* float(raw) of a str: [-]digits[.digits]; any other text is a ValueError *)
float_of_text(chars) ==
    LET negative == chars # <<>> /\ chars[1] = 45
        unsigned == IF negative THEN Tail(chars) ELSE chars
        dot == Find(unsigned, 46)
        whole == IF dot = -1 THEN unsigned ELSE SubSeq(unsigned, 1, dot)
        frac == IF dot = -1 THEN <<>> ELSE SubSeq(unsigned, dot + 2, Len(unsigned))
        digits == whole \o frac
        n == DigitsValue(digits, 0)
    IN  IF digits # <<>> /\ \A i \in 1..Len(digits) : IsDigit(digits[i])
        THEN Val("num", <<IF negative THEN 0 - n ELSE n>>, Pow(10, Len(frac)))
        ELSE None

(* an accessor that tests the stored value for truth: if not raw: return None *)
get_live_data_float_zero_is_missing(live, name) ==
    IF name \notin DOMAIN live THEN None
    ELSE LET raw == live[name].interpreted_value
         IN  CASE raw.kind = "num" -> IF raw.v[1] = 0 THEN None ELSE raw
               [] raw.kind = "text" -> float_of_text(raw.v)
               [] OTHER -> None

(* get_live_data(name): the float of the stored value, None when there is  *)
(* no entry, the value is None or float() raises TypeError or ValueError   *)
get_live_data_float(live, name) ==
    IF name \notin DOMAIN live THEN None
    ELSE LET raw == live[name].interpreted_value
         IN  CASE raw.kind = "num" -> raw
               [] raw.kind = "text" -> float_of_text(raw.v)
               [] OTHER -> None

(* get_live_data(name, as_string=True): str(raw); a float n/10 prints with *)
(* one decimal                                                             *)
get_live_data_string(live, name) ==
    IF name \notin DOMAIN live THEN None
    ELSE LET raw == live[name].interpreted_value
         IN  CASE raw.kind = "text" -> raw
               [] raw.kind = "num" -> Val("text", format_fixed(raw.v[1], raw.den, 1), 1)
               [] OTHER -> None

(* f"S"x:.1f"" if x is not None else "" *)
fixed_or_blank(x, places) ==
    IF x = None THEN <<>> ELSE format_fixed(x.v[1], x.den, places)

(* if x is not None and x < 0: x += 360 *)
plus_360(x) ==
    IF x # None /\ x.v[1] < 0 THEN Val("num", <<x.v[1] + 360 * x.den>>, x.den) ELSE x

(* x * 1852.0 / 3600.0 and x * 1.852 *)
knots_to_ms(x) == Val("num", <<x.v[1] * 1852>>, x.den * 3600)
knots_to_kmph(x) == Val("num", <<x.v[1] * 1852>>, x.den * 1000)

(* datetime.utcnow().strftime("%H%M%S"), the clock counting seconds *)
TwoDigits(n) == <<48 + ((n \div 10) % 10), 48 + (n % 10)>>
strftime_HMS(now) ==
    TwoDigits((now \div 3600) % 24) \o TwoDigits((now \div 60) % 60) \o TwoDigits(now % 60)

(* ---------------------------------------------------------------------- *)
(* fastnet2ip.py: the builders.  The result is the sentence, <<>> for None *)
(* ---------------------------------------------------------------------- *)
NoMessage == <<>>

process_vhw(live) ==
    LET hdg == get_live_data_float(live, "Heading")
        bs == get_live_data_float(live, "Boatspeed (Knots)")
    IN  IF hdg # None
        THEN Wrap(<<73, 73, 86, 72, 87, 44, 44, 44>> \o fixed_or_blank(hdg, 1) \o <<44, 77, 44>> \o fixed_or_blank(bs, 1)    \* "IIVHW,,," ",M,"
                  \o <<44, 78, 44, 44>>)    \* ",N,,"
        ELSE Wrap(<<73, 73, 86, 72, 87, 44, 44, 44, 44, 44>> \o fixed_or_blank(bs, 1) \o <<44, 78, 44, 44>>)    \* "IIVHW,,,,," ",N,,"

process_dbt(live) ==
    Wrap(<<73, 73, 68, 66, 84, 44>> \o fixed_or_blank(get_live_data_float(live, "Depth (Feet)"), 1)    \* "IIDBT,"
         \o <<44, 102, 44>> \o fixed_or_blank(get_live_data_float(live, "Depth (Meters)"), 1)    \* ",f,"
         \o <<44, 77, 44>> \o fixed_or_blank(get_live_data_float(live, "Depth (Fathoms)"), 1)    \* ",M,"
         \o <<44, 70>>)    \* ",F"

process_rsa(live) ==
    LET ra == get_live_data_float(live, "Rudder Angle")
        status == IF ra # None THEN <<65>> ELSE <<86>>    \* "A" "V"
    IN  Wrap(<<73, 73, 82, 83, 65, 44>> \o fixed_or_blank(ra, 1) \o <<44>> \o status \o <<44, 44>> \o status)    \* "IIRSA," "," ",,"

process_xdr_battv(live) ==
    Wrap(<<73, 73, 88, 68, 82, 44, 85, 44>> \o fixed_or_blank(get_live_data_float(live, "Battery Voltage"), 2)    \* "IIXDR,U,"
         \o <<44, 86, 44, 66, 65, 84, 84, 86>>)    \* ",V,BATTV"

process_mwd(live) ==
    LET twd == plus_360(get_live_data_float(live, "True Wind Direction"))
        tws == get_live_data_float(live, "True Wind Speed (Knots)")
        tws_ms_str == IF tws # None THEN format_fixed(knots_to_ms(tws).v[1],
                                                      knots_to_ms(tws).den, 1)
                      ELSE <<>>
    IN  Wrap(<<87, 73, 77, 87, 68, 44, 44, 44>> \o fixed_or_blank(twd, 1) \o <<44, 77, 44>> \o fixed_or_blank(tws, 1)    \* "WIMWD,,," ",M,"
             \o <<44, 78, 44>> \o tws_ms_str \o <<44, 77>>)    \* ",N," ",M"

(* f"IIMWV,S"angle_str",S"reference",S"speed_str",N,S"status"" *)
mwv_body(angle, reference, speed) ==
    LET angle_str == fixed_or_blank(angle, 1)
        speed_str == fixed_or_blank(speed, 1)
        status == IF angle_str # <<>> /\ speed_str # <<>> THEN <<65>> ELSE <<86>>    \* "A" "V"
    IN  <<73, 73, 77, 87, 86, 44>> \o angle_str \o <<44>> \o reference \o <<44>> \o speed_str \o <<44, 78, 44>>    \* "IIMWV," "," "," ",N,"
        \o status

process_mwv_true_or_none(live) ==
    IF get_live_data_float(live, "True Wind Angle") = None
       \/ get_live_data_float(live, "True Wind Speed (Knots)") = None
    THEN NoMessage
    ELSE Wrap(mwv_body(plus_360(get_live_data_float(live, "True Wind Angle")), <<84>>,    \* "T"
                       get_live_data_float(live, "True Wind Speed (Knots)")))

process_mwv_true(live) ==
    Wrap(mwv_body(plus_360(get_live_data_float(live, "True Wind Angle")), <<84>>,    \* "T"
                  get_live_data_float(live, "True Wind Speed (Knots)")))

process_mwv_apparent(live) ==
    Wrap(mwv_body(plus_360(get_live_data_float(live, "Apparent Wind Angle")), <<82>>,    \* "R"
                  get_live_data_float(live, "Apparent Wind Speed (Knots)")))

process_mtw(live) ==
    Wrap(<<73, 73, 77, 84, 87, 44>> \o fixed_or_blank(get_live_data_float(live, "Sea Temperature"), 1)    \* "IIMTW,"
         \o <<44, 67>>)    \* ",C"

process_hdm(live) ==
    Wrap(<<73, 73, 72, 68, 77, 44>> \o fixed_or_blank(get_live_data_float(live, "Heading"), 1) \o <<44, 77>>)    \* "IIHDM," ",M"

(* a symbol only behind a field that is not blank *)
symbol_if(field, symbol) == IF field # <<>> THEN symbol ELSE <<>>

process_vtg(live) ==
    LET tt_str == fixed_or_blank(
                      plus_360(get_live_data_float(live, "Course Over Ground (True)")), 1)
        mt_str == fixed_or_blank(
                      plus_360(get_live_data_float(live, "Course Over Ground (Mag)")), 1)
        sog == get_live_data_float(live, "Speed Over Ground (Knots)")
        kts_str == fixed_or_blank(sog, 1)
        kmph_str == IF sog # None
                    THEN format_fixed(knots_to_kmph(sog).v[1], knots_to_kmph(sog).den, 1)
                    ELSE <<>>
        mode == IF kts_str # <<>> THEN <<65>> ELSE <<86>>    \* "A" "V"
    IN  Wrap(<<73, 73, 86, 84, 71, 44>> \o Join(<<tt_str, symbol_if(tt_str, <<84>>),    \* "IIVTG," "T"
                                mt_str, symbol_if(mt_str, <<77>>),    \* "M"
                                kts_str, symbol_if(kts_str, <<78>>),    \* "N"
                                kmph_str, symbol_if(kmph_str, <<75>>),    \* "K"
                                mode>>))

process_gll(live, now) ==
    LET latlon == get_live_data_string(live, "LatLon")
        latlon_str == latlon.v
        lat_idx == Max(Find(latlon_str, 78), Find(latlon_str, 83))     \* "N", "S"
        lon_idx == Max(Find(latlon_str, 69), Find(latlon_str, 87))     \* "E", "W"
    IN  IF latlon = None \/ latlon_str = <<>> THEN NoMessage
        ELSE IF lat_idx = -1 \/ lon_idx = -1 THEN NoMessage
        ELSE Wrap(<<71, 80, 71, 76, 76, 44>> \o Slice(latlon_str, 0, lat_idx) \o <<44>>    \* "GPGLL," ","
                  \o <<latlon_str[lat_idx + 1]>> \o <<44>>    \* ","
                  \o Slice(latlon_str, lat_idx + 1, lon_idx) \o <<44>>    \* ","
                  \o <<latlon_str[lon_idx + 1]>> \o <<44>> \o strftime_HMS(now) \o <<44, 65>>)    \* "," ",A"

(* f"IIXDR,S"type",S"value:.2f",S"unit",S"name"" of one channel *)
process_xdr(live, read, type, unit, name) ==
    Wrap(<<73, 73, 88, 68, 82, 44>> \o type \o <<44>> \o fixed_or_blank(get_live_data_float(live, read), 2)    \* "IIXDR," ","
         \o <<44>> \o unit \o <<44>> \o name)    \* "," ","

process_xdr_raw_wind_angle(live) ==
    process_xdr(live, "Measured Wind Angle Raw", <<65>>, <<86>>, <<82, 65, 87, 95, 87, 73, 78, 68, 95, 65>>)    \* "A" "V" "RAW_WIND_A"
process_xdr_raw_wind_s(live) ==
    process_xdr(live, "Measured Wind Speed Raw", <<78>>, <<86>>, <<82, 65, 87, 95, 87, 73, 78, 68, 95, 83>>)    \* "N" "V" "RAW_WIND_S"
process_xdr_drift(live) == process_xdr(live, "Tide Drift Speed", <<78>>, <<86>>, <<68, 82, 73, 70, 84>>)    \* "N" "V" "DRIFT"
process_xdr_set(live) == process_xdr(live, "Tide Set Angle", <<65>>, <<86>>, <<83, 69, 84>>)    \* "A" "V" "SET"
process_xdr_raw_bsp(live) == process_xdr(live, "Raw BSP", <<78>>, <<86>>, <<82, 65, 87, 95, 66, 83, 80>>)    \* "N" "V" "RAW_BSP"
process_xdr_roll(live) == process_xdr(live, "Roll", <<65>>, <<68>>, <<82, 79, 76, 76>>)    \* "A" "D" "ROLL"
process_xdr_pitch(live) == process_xdr(live, "Pitch", <<65>>, <<68>>, <<80, 73, 84, 67, 72>>)    \* "A" "D" "PITCH"

(* a table in which Heading triggers the speed-through-water builder *)
trigger_function_heading_speed(channel_name) ==
    CASE channel_name = "Boatspeed (Knots)" -> "process_vhw"
      [] channel_name = "Depth (Meters)" -> "process_dbt"
      [] channel_name = "Rudder Angle" -> "process_rsa"
      [] channel_name = "Battery Volts" -> "process_xdr_battv"
      [] channel_name = "True Wind Direction" -> "process_mwd"
      [] channel_name = "True Wind Speed (Knots)" -> "process_mwv_true"
      [] channel_name = "True Wind Angle" -> "process_mwv_true"
      [] channel_name = "Apparent Wind Speed (Knots)" -> "process_mwv_apparent"
      [] channel_name = "Apparent Wind Angle" -> "process_mwv_apparent"
      [] channel_name = "Sea Temperature (°C)" -> "process_mtw"
      [] channel_name = "Heading" -> "process_vhw"
      [] channel_name = "Speed Over Ground" -> "process_vtg"
      [] channel_name = "Course Over Ground (Mag)" -> "process_vtg"
      [] channel_name = "Course Over Ground (True)" -> "process_vtg"
      [] channel_name = "LatLon" -> "process_gll"
      [] channel_name = "Apparent Wind Angle (Raw)" -> "process_xdr_raw_wind_angle"
      [] channel_name = "Apparent Wind Speed (Raw)" -> "process_xdr_raw_wind_s"
      [] channel_name = "Tidal Drift" -> "process_xdr_drift"
      [] channel_name = "Tidal Set" -> "process_xdr_set"
      [] channel_name = "Boatspeed (Raw)" -> "process_xdr_raw_bsp"
      [] channel_name = "Heel Angle" -> "process_xdr_roll"
      [] channel_name = "Fore/Aft Trim" -> "process_xdr_pitch"
      [] OTHER -> ""

(* trigger_functions.get(channel_name): the name of the builder, "" for None *)
trigger_function(channel_name) ==
    CASE channel_name = "Boatspeed (Knots)" -> "process_vhw"
      [] channel_name = "Depth (Meters)" -> "process_dbt"
      [] channel_name = "Rudder Angle" -> "process_rsa"
      [] channel_name = "Battery Volts" -> "process_xdr_battv"
      [] channel_name = "True Wind Direction" -> "process_mwd"
      [] channel_name = "True Wind Speed (Knots)" -> "process_mwv_true"
      [] channel_name = "True Wind Angle" -> "process_mwv_true"
      [] channel_name = "Apparent Wind Speed (Knots)" -> "process_mwv_apparent"
      [] channel_name = "Apparent Wind Angle" -> "process_mwv_apparent"
      [] channel_name = "Sea Temperature (°C)" -> "process_mtw"
      [] channel_name = "Heading" -> "process_hdm"
      [] channel_name = "Speed Over Ground" -> "process_vtg"
      [] channel_name = "Course Over Ground (Mag)" -> "process_vtg"
      [] channel_name = "Course Over Ground (True)" -> "process_vtg"
      [] channel_name = "LatLon" -> "process_gll"
      [] channel_name = "Apparent Wind Angle (Raw)" -> "process_xdr_raw_wind_angle"
      [] channel_name = "Apparent Wind Speed (Raw)" -> "process_xdr_raw_wind_s"
      [] channel_name = "Tidal Drift" -> "process_xdr_drift"
      [] channel_name = "Tidal Set" -> "process_xdr_set"
      [] channel_name = "Boatspeed (Raw)" -> "process_xdr_raw_bsp"
      [] channel_name = "Heel Angle" -> "process_xdr_roll"
      [] channel_name = "Fore/Aft Trim" -> "process_xdr_pitch"
      [] OTHER -> ""

(* trigger_function() *)
call_trigger_function(name, live, now) ==
    CASE name = "process_vhw" -> process_vhw(live)
      [] name = "process_dbt" -> process_dbt(live)
      [] name = "process_rsa" -> process_rsa(live)
      [] name = "process_xdr_battv" -> process_xdr_battv(live)
      [] name = "process_mwd" -> process_mwd(live)
      [] name = "process_mwv_true" -> process_mwv_true(live)
      [] name = "process_mwv_apparent" -> process_mwv_apparent(live)
      [] name = "process_mtw" -> process_mtw(live)
      [] name = "process_hdm" -> process_hdm(live)
      [] name = "process_vtg" -> process_vtg(live)
      [] name = "process_gll" -> process_gll(live, now)
      [] name = "process_xdr_raw_wind_angle" -> process_xdr_raw_wind_angle(live)
      [] name = "process_xdr_raw_wind_s" -> process_xdr_raw_wind_s(live)
      [] name = "process_xdr_drift" -> process_xdr_drift(live)
      [] name = "process_xdr_set" -> process_xdr_set(live)
      [] name = "process_xdr_raw_bsp" -> process_xdr_raw_bsp(live)
      [] name = "process_xdr_roll" -> process_xdr_roll(live)
      [] name = "process_xdr_pitch" -> process_xdr_pitch(live)

(* None when the channel has no builder, else what the builder returns *)
trigger_nmea_sentence(channel_name, live, now) ==
    IF trigger_function(channel_name) = "" THEN NoMessage
    ELSE call_trigger_function(trigger_function(channel_name), live, now)

(* ---------------------------------------------------------------------- *)
(* fastnet2ip.py: process_frame_queue.  A decoded frame is the sequence of *)
(* the items of its "values" dict.                                         *)
(* ---------------------------------------------------------------------- *)
Channel(channel_name, channel_id, interpreted) ==
    [channel_name |-> channel_name, channel_id |-> channel_id,
     interpreted |-> interpreted]

(* history: one channel of a frame, what was stored for it and the message *)
(* its builder returned                                                    *)
Processed(frame, channel_name, interpreted, message) ==
    [frame |-> frame, channel_name |-> channel_name, interpreted |-> interpreted,
     message |-> message]

Outcome(live, out, hist) == [live |-> live, sent |-> out, log |-> hist]

FramesDone(hist) == IF hist = <<>> THEN 0 ELSE hist[Len(hist)].frame

(* a socket that hands the newest datagram over first *)
sendto_newest_first(so_far, c, frame, stored, message) ==
    Outcome(stored,
            IF message # NoMessage THEN <<message>> \o so_far.sent ELSE so_far.sent,
            Append(so_far.log,
                   Processed(frame, c.channel_name, c.interpreted, message)))

(* if message: udp_socket.sendto(message.encode(), ...) *)
sendto(so_far, c, frame, stored, message) ==
    Outcome(stored,
            IF message # NoMessage THEN Append(so_far.sent, message) ELSE so_far.sent,
            Append(so_far.log,
                   Processed(frame, c.channel_name, c.interpreted, message)))

(* message = trigger_nmea_sentence(channel_name), on the store as updated *)
trigger_and_send(so_far, c, frame, stored, now) ==
    CHOOSE after \in {sendto(so_far, c, frame, stored, message) :
                         message \in {trigger_nmea_sentence(c.channel_name, stored, now)}} :
        TRUE

(* update_live_data(channel_name, channel_id, interpreted_value) and then  *)
(* the trigger, for one item of values.items()                             *)
process_channel(so_far, c, frame, now) ==
    CHOOSE after \in {trigger_and_send(so_far, c, frame, stored, now) :
                         stored \in {store_live_data(so_far.live, c.channel_name,
                                                     c.channel_id, c.interpreted,
                                                     now)}} :
        TRUE

(* for channel_name, channel_data in values.items(): ... *)
RECURSIVE process_frame_values(_, _, _, _)
process_frame_values(values, frame, so_far, now) ==
    IF values = <<>> THEN so_far
    ELSE CHOOSE after \in {process_frame_values(Tail(values), frame, next, now) :
                              next \in {process_channel(so_far, Head(values), frame,
                                                        now)}} :
             TRUE

(* while not frame_queue.empty(): frame = frame_queue.get_nowait() ... *)
RECURSIVE process_frame_queue(_, _, _)
process_frame_queue(queue, so_far, now) ==
    IF queue = <<>> THEN so_far
    ELSE CHOOSE after \in {process_frame_queue(Tail(queue), next, now) :
                              next \in {process_frame_values(
                                            Head(queue), FramesDone(so_far.log) + 1,
                                            so_far, now)}} :
             TRUE

(* ---------------------------------------------------------------------- *)
(* fastnet2ip.py: the main loop and the frames the decoder delivers.       *)
(* Numbers are tenths or hundredths as the decoder divides them.           *)
(* ---------------------------------------------------------------------- *)
MaxFrames == 2       \* frames the decoder delivers in all

Num(n, den) == Val("num", <<n>>, den)

BridgeFrames ==
    {<<Channel("True Wind Angle", 89, Num(-450, 10))>>,
     <<Channel("True Wind Angle", 89, Num(-4000, 10))>>,
     <<Channel("True Wind Speed (Knots)", 85, Num(123, 10))>>,
     <<Channel("Apparent Wind Angle", 81, Num(-300, 10)),
       Channel("Apparent Wind Speed (Knots)", 77, Num(80, 10))>>,
     <<Channel("Heading", 73, Num(910, 10))>>,
     <<Channel("Heading", 73, Num(910, 10)),
       Channel("Boatspeed (Knots)", 65, Num(42, 10))>>,
     <<Channel("Boatspeed (Knots)", 65, Num(42, 10))>>,
     <<Channel("Battery Volts", 141, Num(1250, 100))>>,
     <<Channel("Depth (Feet)", 194, Num(300, 10))>>,
     <<Channel("LatLon", 71, Val("text", <<52, 57, 49, 54, 46, 52, 53, 78, 49, 50, 51, 49, 49, 46, 49, 50, 87>>, 1))>>,    \* "4916.45N12311.12W"
     <<Channel("LatLon", 71, Val("text", <<48, 48, 48, 48>>, 1))>>}    \* "0000"

Batches(n) == UNION {[1..k -> BridgeFrames] : k \in 1..n}

InitBridge ==
    /\ stream = <<>>
    /\ wire = <<>>
    /\ raw_queue = <<>>
    /\ buffer = <<>>
    /\ pc = "read"
    /\ live_data = EmptyStore
    /\ output_queue = <<>>
    /\ utcnow = 0
    /\ log = <<>>
    /\ handed = NothingHanded
    /\ dec = NoDecode
    /\ ThreadsIdle
    /\ BridgeIdle

BridgeUntouched ==
    UNCHANGED <<thread_vars, main_vars, dec, stream, wire, raw_queue, buffer, output_queue,
                handed>>

(* new_data = read_input_source(...); frame_buffer.add_to_buffer(new_data); *)
(* frame_buffer.get_complete_frames()                                      *)
ReadInputSource ==
    /\ pc = "read"
    /\ FramesDone(log) < MaxFrames
    /\ \E frames \in Batches(MaxFrames - FramesDone(log)) : frame_queue' = frames
    /\ pc' = "process"
    /\ UNCHANGED <<live_data, sent, log, utcnow>>
    /\ BridgeUntouched

(* process_frame_queue(frame_buffer.frame_queue, udp_socket, args.udp_port) *)
ProcessFrameQueue ==
    /\ pc = "process"
    /\ \E after \in {process_frame_queue(frame_queue, Outcome(live_data, sent, log),
                                          utcnow)} :
           /\ live_data' = after.live
           /\ sent' = after.sent
           /\ log' = after.log
    /\ frame_queue' = <<>>
    /\ pc' = "read"
    /\ UNCHANGED utcnow
    /\ BridgeUntouched

NextBridge ==
    \/ ReadInputSource
    \/ ProcessFrameQueue
    \/ ClockTick

SpecBridge == InitBridge /\ [][NextBridge]_vars

(* ---------------------------------------------------------------------- *)
(* C14: every datagram given to the socket is "$" body "*" HH "\n", HH     *)
(* being the two upper-case hexadecimal digits of the 8-bit XOR of the     *)
(* characters of body (bit k of the XOR is the parity of the number of     *)
(* characters with bit k set).                                             *)
(* ---------------------------------------------------------------------- *)
RefParity(body, weight) ==
    weight * (Cardinality({i \in DOMAIN body : (body[i] \div weight) % 2 = 1}) % 2)

RefXor(body) ==
    RefParity(body, 1) + RefParity(body, 2) + RefParity(body, 4) + RefParity(body, 8)
    + RefParity(body, 16) + RefParity(body, 32) + RefParity(body, 64)
    + RefParity(body, 128)

RefHexDigits == <<48, 49, 50, 51, 52, 53, 54, 55, 56, 57, 65, 66, 67, 68, 69, 70>>    \* "0123456789ABCDEF"

RefWireForm(d) ==
    /\ Len(d) >= 5
    /\ d[1] = 36                                      \* "$"
    /\ d[Len(d) - 3] = 42                             \* "*"
    /\ d[Len(d)] = 10                                 \* "\n"
    /\ LET body == SubSeq(d, 2, Len(d) - 4)
       IN  /\ \A i \in DOMAIN body : body[i] < 256
           /\ d[Len(d) - 2] = RefHexDigits[(RefXor(body) \div 16) + 1]
           /\ d[Len(d) - 1] = RefHexDigits[(RefXor(body) % 16) + 1]

C14_WireFormAndChecksum == \A i \in 1..Len(sent) : RefWireForm(sent[i])

(* a sentence was sent whose checksum has a letter among its digits *)
C14_Witness ==
    \E i \in 1..Len(sent) :
        /\ Len(sent[i]) > 5
        /\ sent[i][Len(sent[i]) - 2] >= 65 \/ sent[i][Len(sent[i]) - 1] >= 65

(* ---------------------------------------------------------------------- *)
(* C15: the angle field of every MWV datagram (true and apparent) is       *)
(* blank or a number in [0, 360), never negative.                          *)
(* ---------------------------------------------------------------------- *)
RefStartsWith(d, prefix) ==
    Len(d) >= Len(prefix) /\ SubSeq(d, 1, Len(prefix)) = prefix

(* the text between the first comma and the second *)
RefFirstField(d) ==
    LET first == Find(d, 44)
        behind == Slice(d, first + 1, Len(d))
    IN  Slice(behind, 0, Find(behind, 44))

RefAngleInRange(field) ==
    \/ field = <<>>
    \/ /\ field[1] # 45                                      \* "-"
       /\ float_of_text(field) # None
       /\ float_of_text(field).v[1] < 360 * float_of_text(field).den

C15_MwvAngleNormalized ==
    \A i \in 1..Len(sent) :
        RefStartsWith(sent[i], <<36, 73, 73, 77, 87, 86, 44>>) => RefAngleInRange(RefFirstField(sent[i]))    \* "$IIMWV,"

(* ---------------------------------------------------------------------- *)
(* C16 as stated: when True Wind Angle is updated while True Wind Speed    *)
(* has never been stored, the MWV-T builder returns None and no datagram   *)
(* is sent for the update.                                                 *)
(* ---------------------------------------------------------------------- *)
RefStoredBefore(i, channel_name) ==
    \E j \in 1..(i - 1) : log[j].channel_name = channel_name

RefAngleWithoutSpeed(i) ==
    /\ log[i].channel_name = "True Wind Angle"
    /\ ~RefStoredBefore(i, "True Wind Speed (Knots)")

RefIsMessage(m) == m # <<>>

RECURSIVE RefFields(_)
RefFields(d) ==
    IF Find(d, 44) = -1 THEN <<d>>
    ELSE <<Slice(d, 0, Find(d, 44))>> \o RefFields(Slice(d, Find(d, 44) + 1, Len(d)))

RefHasAny(text, chars) == \E i \in DOMAIN text : text[i] \in chars

RefPositionSplits(v) ==
    v.kind = "text" /\ RefHasAny(v.v, {78, 83}) /\ RefHasAny(v.v, {69, 87})

RefBuilt ==
    {"Boatspeed (Knots)", "Depth (Meters)", "Rudder Angle", "Battery Volts",
     "True Wind Direction", "True Wind Speed (Knots)", "True Wind Angle",
     "Apparent Wind Speed (Knots)", "Apparent Wind Angle", "Sea Temperature (°C)",
     "Heading", "Speed Over Ground", "Course Over Ground (Mag)",
     "Course Over Ground (True)", "Apparent Wind Angle (Raw)",
     "Apparent Wind Speed (Raw)", "Tidal Drift", "Tidal Set", "Boatspeed (Raw)",
     "Heel Angle", "Fore/Aft Trim"}

RefLatestIndex(i, channel_name) ==
    CHOOSE j \in 1..i :
        /\ log[j].channel_name = channel_name
        /\ \A k \in (j + 1)..i : log[k].channel_name # channel_name

RefLatest(i, channel_name) == log[RefLatestIndex(i, channel_name)].interpreted

(* the field reads the number x, up to the decimals printed *)
RefFieldIs(field, n, den) ==
    /\ float_of_text(field) # None
    /\ float_of_text(field).v[1] * den = n * float_of_text(field).den

RefBothStored(i) ==
    /\ log[i].channel_name \in {"True Wind Angle", "True Wind Speed (Knots)"}
    /\ RefStoredBefore(i + 1, "True Wind Angle")
    /\ RefStoredBefore(i + 1, "True Wind Speed (Knots)")

C17_LatestOfBothNormalized ==
    \A i \in 1..Len(log) :
        RefBothStored(i) =>
            LET fields == RefFields(log[i].message)
                twa == RefLatest(i, "True Wind Angle")
                tws == RefLatest(i, "True Wind Speed (Knots)")
            IN  /\ Len(fields) = 6
                /\ fields[1] = <<36, 73, 73, 77, 87, 86>>    \* "$IIMWV"
                /\ RefFieldIs(fields[2], twa.v[1] % (360 * twa.den), twa.den)
                /\ fields[3] = <<84>>    \* "T"
                /\ RefFieldIs(fields[4], tws.v[1], tws.den)
                /\ fields[5] = <<78>>    \* "N"
                /\ RefStartsWith(fields[6], <<65, 42>>)    \* "A*"
                /\ log[i].message \in {sent[k] : k \in 1..Len(sent)}

(* ---------------------------------------------------------------------- *)
(* C18: an update of any channel a builder reads sends that builder's      *)
(* sentence: once Heading was updated an HDM and a VHW datagram have been  *)
(* sent, once True Wind Speed was updated an MWV and an MWD datagram, and  *)
(* once Depth (Feet) or Depth (Fathoms) was updated a DBT datagram.        *)
(* ---------------------------------------------------------------------- *)
RefUpdated(channel_name) == RefStoredBefore(Len(log) + 1, channel_name)

RefSentOne(prefix) == \E k \in 1..Len(sent) : RefStartsWith(sent[k], prefix)

C18_EveryInputTriggers ==
    /\ RefUpdated("Heading") => RefSentOne(<<36, 73, 73, 72, 68, 77, 44>>) /\ RefSentOne(<<36, 73, 73, 86, 72, 87, 44>>)    \* "$IIHDM," "$IIVHW,"
    /\ RefUpdated("True Wind Speed (Knots)") =>
           RefSentOne(<<36, 73, 73, 77, 87, 86, 44>>) /\ RefSentOne(<<36, 87, 73, 77, 87, 68, 44>>)    \* "$IIMWV," "$WIMWD,"
    /\ RefUpdated("Depth (Feet)") => RefSentOne(<<36, 73, 73, 68, 66, 84, 44>>)    \* "$IIDBT,"
    /\ RefUpdated("Depth (Fathoms)") => RefSentOne(<<36, 73, 73, 68, 66, 84, 44>>)    \* "$IIDBT,"

(* ---------------------------------------------------------------------- *)
(* C19: the sentence built on an update of Battery Volts, Sea Temperature, *)
(* Speed Over Ground or a raw channel has a field that reads the value     *)
(* just stored for that channel.                                           *)
(* ---------------------------------------------------------------------- *)
RefCarried ==
    {"Battery Volts", "Sea Temperature (°C)", "Speed Over Ground",
     "Apparent Wind Angle (Raw)", "Apparent Wind Speed (Raw)", "Tidal Drift",
     "Tidal Set", "Boatspeed (Raw)", "Heel Angle", "Fore/Aft Trim"}

C19_SentenceCarriesStoredValue ==
    \A i \in 1..Len(log) :
        log[i].channel_name \in RefCarried /\ log[i].interpreted.kind = "num" =>
            /\ RefIsMessage(log[i].message)
            /\ \E f \in 1..Len(RefFields(log[i].message)) :
                   RefFieldIs(RefFields(log[i].message)[f],
                              log[i].interpreted.v[1], log[i].interpreted.den)

(* ---------------------------------------------------------------------- *)
(* fn2ip.py: streams in which a trigger raises.  True Wind Speed comes     *)
(* before any True Wind Angle, so process_twa_tws_nmea formats None.       *)
(* ---------------------------------------------------------------------- *)
FrameSpeedFirst == <<1, 9, 8, 1, 237, 85, 65, 0, 123, 65, 65, 0, 91, 18>>

RaiseStreams ==
    {f1 \o f2 : f1 \in {FrameSpeedFirst, FrameWind}, f2 \in SecondFrames}
        \cup {<<241>> \o FrameLatLon, FrameAsciiEmpty} \cup ResyncStreams

InitRaises ==
    /\ stream \in RaiseStreams
    /\ wire = stream
    /\ raw_queue = <<>>
    /\ buffer = <<>>
    /\ pc = "get"
    /\ live_data = EmptyLive
    /\ output_queue = <<>>
    /\ utcnow = 0
    /\ log = <<>>
    /\ handed = NothingHanded
    /\ dec = NoDecode
    /\ ThreadsIdle
    /\ BridgeIdle

SpecRaises == InitRaises /\ [][Next]_vars

(* ---------------------------------------------------------------------- *)
(* C20: when the builder of a channel of a broadcast frame raises, the     *)
(* value that triggered it stays in the live store, the channels behind it *)
(* in the frame are stored and their builders put their sentences on the   *)
(* queue, the frame is removed from the buffer, and the frames behind it   *)
(* are decoded.                                                            *)
(* ---------------------------------------------------------------------- *)
RefSibling(channel_name) ==
    CASE channel_name = "True Wind Speed (Knots)" -> "True Wind Angle"
      [] channel_name = "Apparent Wind Speed (Knots)" -> "Apparent Wind Angle"
      [] channel_name = "Speed Over Ground" -> "Course Over Ground (Mag)"
      [] OTHER -> ""

RefSimpleId(channel_name) ==
    CASE channel_name = "Boatspeed (Knots)" -> "IIVHW"
      [] channel_name = "Depth (Meters)" -> "IIDBT"
      [] channel_name = "Rudder Angle" -> "IIRSA"
      [] channel_name = "Battery Volts" -> "IIXDR"
      [] channel_name = "True Wind Direction" -> "WIMWD"
      [] channel_name = "Sea Temperature (°C)" -> "IIMTW"
      [] channel_name = "Heading" -> "IIHDG"
      [] OTHER -> ""

(* the builder of triple i formats a sibling that was never stored *)
RefRaisesAt(ref, i, live) ==
    /\ RefDecodes(ref[i])
    /\ RefSibling(RefName(ref[i])) # ""
    /\ RefSibling(RefName(ref[i])) \notin DOMAIN live
    /\ \A j \in 1..(i - 1) :
           ~(RefDecodes(ref[j]) /\ RefName(ref[j]) = RefSibling(RefName(ref[i])))

RefRaisesIn(frame, live) ==
    \E i \in 1..Len(RefTriples(RefBody(frame))) :
        RefRaisesAt(RefTriples(RefBody(frame)), i, live)

RefQueued(before, after) == SubSeq(after, Len(before) + 1, Len(after))

C20_Step ==
    /\ HandsBroadcast /\ RefRaisesIn(HandedFrame, live_data) =>
        LET ref == RefTriples(RefBody(HandedFrame))
            queued == RefQueued(output_queue, output_queue')
        IN  /\ RefStored(ref, live_data')
            /\ \A i \in 1..Len(ref) :
                   RefDecodes(ref[i]) /\ RefSimpleId(RefName(ref[i])) # "" =>
                       \E k \in 1..Len(queued) :
                           queued[k] = Sentence(RefSimpleId(RefName(ref[i])),
                                                <<RefValue(ref[i])>>)
            /\ \A i \in 1..Len(ref) :
                   RefRaisesAt(ref, i, live_data) =>
                       \A k \in 1..Len(queued) : queued[k].args[1] # RefValue(ref[i])
            /\ buffer' = SubSeq(buffer, Len(HandedFrame) + 1, Len(buffer))
    /\ (/\ wire' = <<>> /\ raw_queue' = <<>> /\ pc' = "get"
        /\ ValidFrameAt(stream, 0) /\ stream[4] = 1
        /\ RefRaisesIn(FrameAt(stream, 0), EmptyLive)) =>
           Flatten([i \in 1..Len(log') |-> log'[i].bytes]) = stream

C20_RaisingBuilderSwallowed == [][C20_Step]_vars

(* True Wind Speed came without an angle and its builder raised: the speed *)
(* and the boatspeed behind it are stored, the boatspeed sentence is       *)
(* queued, and the frame behind was decoded too                            *)
C20_Witness ==
    /\ Len(log) = 2
    /\ log[1].bytes = FrameSpeedFirst
    /\ log[2].bytes = FrameS1
    /\ "True Wind Angle" \notin DOMAIN live_data
    /\ "True Wind Speed (Knots)" \in DOMAIN live_data
    /\ live_data["True Wind Speed (Knots)"].value = Val("num", <<123>>, 10)
    /\ live_data["Boatspeed (Knots)"].value = Val("num", <<91>>, 1)
    /\ Len(output_queue) = 2
    /\ output_queue[1] = Sentence("IIVHW", <<Val("num", <<91>>, 10)>>)
    /\ output_queue[2] = Sentence("IIVHW", <<Val("num", <<91>>, 1)>>)
(* ---------------------------------------------------------------------- *)
(* fn2ip.py: streams with a channel id that CHANNEL_LOOKUP does not hold   *)
(* (0xAB), in front of and behind a known channel, and frames of commands  *)
(* other than 0x01 and 0x03.                                               *)
(* ---------------------------------------------------------------------- *)
FrameUnknownChannel == <<1, 9, 8, 1, 237, 171, 1, 0, 42, 65, 1, 0, 91, 141>>
FrameUnknownLast == <<1, 9, 8, 1, 237, 73, 1, 0, 91, 171, 1, 0, 42, 133>>
FrameUnknownOnly == <<1, 9, 4, 1, 241, 171, 1, 0, 42, 42>>
FrameLightIntensity == <<1, 9, 2, 201, 43, 7, 1, 248>>
FrameOtherCommand == <<1, 9, 4, 2, 240, 65, 1, 0, 91, 99>>

FrameNonAscii == <<1, 9, 5, 3, 238, 71, 0, 49, 201, 78, 113>>          \* text 31 C9 4E
FrameLeadingBlank == <<1, 9, 7, 3, 236, 71, 0, 32, 49, 78, 50, 87, 145>>   \* text " 1N2W"

ChannelStreams ==
    {f1 \o f2 : f1 \in {FrameUnknownChannel, FrameUnknownLast, FrameUnknownOnly,
                        FrameKeepAlive, FrameLightIntensity, FrameOtherCommand},
                f2 \in {<<>>, FrameS1, FrameLatLon}}
        \cup {<<241>> \o FrameLatLon \o FrameKeepAlive, FrameAsciiEmpty}
        \cup {FrameLatLon \o FrameNonAscii, FrameLeadingBlank \o FrameS1}
        \cup ResyncStreams

InitChannels ==
    /\ stream \in ChannelStreams
    /\ wire = stream
    /\ raw_queue = <<>>
    /\ buffer = <<>>
    /\ pc = "get"
    /\ live_data = EmptyLive
    /\ output_queue = <<>>
    /\ utcnow = 0
    /\ log = <<>>
    /\ handed = NothingHanded
    /\ dec = NoDecode
    /\ ThreadsIdle
    /\ BridgeIdle

SpecChannels == InitChannels /\ [][Next]_vars

(* ---------------------------------------------------------------------- *)
(* C21: a triple whose channel id is not in the channel table is stored in *)
(* the live store under a name that holds its identifier in hexadecimal,   *)
(* no sentence is queued for it, and the triples behind it in the frame    *)
(* are decoded and stored (and their sentences queued).                    *)
(* ---------------------------------------------------------------------- *)
(* the channel ids of the table *)
RefKnownIds ==
    {0, 6, 11, 28, 29, 30, 31, 39, 41, 50, 51, 52, 53, 54, 55, 59, 60,
     65, 66, 70, 71, 73, 74, 77, 78, 79, 81, 82, 83, 85, 86, 87, 89, 90,
     100, 101, 105, 109, 111, 117, 125, 127, 129, 130, 131, 132, 133,
     134, 135, 141, 154, 155, 156, 157, 158, 166, 175, 193, 194, 195,
     205, 207, 211, 224, 225, 227, 228, 229, 230, 231, 232, 233, 234,
     235, 236, 237, 238, 239, 240, 241, 242, 243, 244, 245, 246, 247,
     248, 250, 251}

RefHexChars == <<"0", "1", "2", "3", "4", "5", "6", "7", "8", "9",
                 "A", "B", "C", "D", "E", "F">>

RefUnknownName(channel_id) ==
    "process_frame: Unknown Channel (0x" \o RefHexChars[(channel_id \div 16) + 1]
        \o RefHexChars[(channel_id % 16) + 1] \o ")"

RefIsUnknown(t) == RefDecodes(t) /\ t.channel_id \notin RefKnownIds

RefHasUnknown(frame) ==
    \E i \in 1..Len(RefTriples(RefBody(frame))) :
        RefIsUnknown(RefTriples(RefBody(frame))[i])

C21_Step ==
    HandsBroadcast /\ RefHasUnknown(HandedFrame) =>
        LET ref == RefTriples(RefBody(HandedFrame))
            queued == RefQueued(output_queue, output_queue')
            known == {i \in 1..Len(ref) : RefDecodes(ref[i]) /\ ~RefIsUnknown(ref[i])}
        IN  /\ \A i \in 1..Len(ref) :
                   RefIsUnknown(ref[i]) =>
                       /\ RefUnknownName(ref[i].channel_id) \in DOMAIN live_data'
                       /\ live_data'[RefUnknownName(ref[i].channel_id)].value
                              = RefValue(ref[i])
            /\ Len(queued) <= Cardinality(known)
            /\ \A k \in 1..Len(queued) :
                   \E i \in known :
                       /\ queued[k].id = RefSimpleId(RefName(ref[i]))
                       /\ queued[k].args = <<RefValue(ref[i])>>
            /\ \A i \in known :
                   /\ live_data'[RefName(ref[i])].value = RefValue(ref[i])
                   /\ RefSimpleId(RefName(ref[i])) # "" =>
                          \E k \in 1..Len(queued) :
                              queued[k] = Sentence(RefSimpleId(RefName(ref[i])),
                                                   <<RefValue(ref[i])>>)

C21_UnknownChannelSurfaced == [][C21_Step]_vars

(* channel 0xAB came in front of Boatspeed: both are in the store and the  *)
(* one sentence on the queue is the boatspeed's                            *)
C21_Witness ==
    /\ Len(log) = 1
    /\ log[1].bytes = FrameUnknownChannel
    /\ "process_frame: Unknown Channel (0xAB)" \in DOMAIN live_data
    /\ live_data["process_frame: Unknown Channel (0xAB)"].value = Val("num", <<42>>, 1)
    /\ live_data["Boatspeed (Knots)"].value = Val("num", <<91>>, 1)
    /\ output_queue = <<Sentence("IIVHW", <<Val("num", <<91>>, 1)>>)>>
(* ---------------------------------------------------------------------- *)
(* C22: the channels of the frames taken from the frame queue are stored   *)
(* in the order of the queue and, inside a frame, in the order of its      *)
(* values; the datagrams given to the socket are the messages the builders *)
(* returned for them, in that same order, behind the datagrams sent        *)
(* before: the message of a channel is sent before the next channel is     *)
(* stored, and all of a frame before anything of the frame behind it.      *)
(* ---------------------------------------------------------------------- *)
RECURSIVE RefItems(_, _)
RefItems(queue, done) ==
    IF queue = <<>> THEN <<>>
    ELSE [i \in 1..Len(Head(queue)) |-> [frame |-> done + 1, item |-> Head(queue)[i]]]
         \o RefItems(Tail(queue), done + 1)

RECURSIVE RefMessages(_)
RefMessages(entries) ==
    IF entries = <<>> THEN <<>>
    ELSE (IF RefIsMessage(Head(entries).message) THEN <<Head(entries).message>> ELSE <<>>)
         \o RefMessages(Tail(entries))

C22_Step ==
    pc = "process" /\ pc' = "read" =>
        LET items == RefItems(frame_queue, FramesDone(log))
            entries == SubSeq(log', Len(log) + 1, Len(log'))
        IN  /\ SubSeq(log', 1, Len(log)) = log
            /\ Len(entries) = Len(items)
            /\ \A i \in 1..Len(items) :
                   /\ entries[i].frame = items[i].frame
                   /\ entries[i].channel_name = items[i].item.channel_name
                   /\ entries[i].interpreted = items[i].item.interpreted
            /\ sent' = sent \o RefMessages(entries)

C22_OrderPreserved == [][C22_Step]_vars

(* a frame of two channels and a frame behind it: three datagrams, in the  *)
(* order apparent wind angle, apparent wind speed, heading                 *)
C22_Witness ==
    /\ Len(log) = 3
    /\ log[1].frame = 1 /\ log[1].channel_name = "Apparent Wind Angle"
    /\ log[2].frame = 1 /\ log[2].channel_name = "Apparent Wind Speed (Knots)"
    /\ log[3].frame = 2 /\ log[3].channel_name = "Heading"
    /\ Len(sent) = 3
    /\ \A k \in 1..3 : sent[k] = log[k].message
    /\ sent[1] # sent[2] /\ sent[2] # sent[3]
(* ---------------------------------------------------------------------- *)
(* C23 (scenario S6): a frame whose values are Heading and then Boatspeed  *)
(* stores both, the heading's builder returns an HDM sentence with the     *)
(* heading and the boatspeed's a VHW sentence with the boatspeed; the two  *)
(* are given to the socket in that order, next to each other, and nothing  *)
(* of a later frame is stored or sent in front of them.                    *)
(* ---------------------------------------------------------------------- *)
RefSentIndex(i) == Len(RefMessages(SubSeq(log, 1, i)))

RefHeadingThenBoatspeed(i) ==
    /\ i + 1 <= Len(log)
    /\ log[i].frame = log[i + 1].frame
    /\ log[i].channel_name = "Heading"
    /\ log[i + 1].channel_name = "Boatspeed (Knots)"

C23_HeadingThenBoatspeed ==
    \A i \in 1..Len(log) :
        RefHeadingThenBoatspeed(i) =>
            LET hdm == RefFields(log[i].message)
                vhw == RefFields(log[i + 1].message)
                at == RefSentIndex(i)
            IN  /\ RefStoredBefore(i + 1, "Heading")
                /\ RefStoredBefore(i + 2, "Boatspeed (Knots)")
                /\ {"Heading", "Boatspeed (Knots)"} \subseteq DOMAIN live_data
                /\ Len(hdm) = 3
                /\ hdm[1] = <<36, 73, 73, 72, 68, 77>>    \* "$IIHDM"
                /\ RefFieldIs(hdm[2], log[i].interpreted.v[1], log[i].interpreted.den)
                /\ Len(vhw) = 9
                /\ vhw[1] = <<36, 73, 73, 86, 72, 87>>    \* "$IIVHW"
                /\ RefFieldIs(vhw[6], log[i + 1].interpreted.v[1],
                              log[i + 1].interpreted.den)
                /\ at >= 1
                /\ Len(sent) >= at + 1
                /\ sent[at] = log[i].message
                /\ sent[at + 1] = log[i + 1].message
                /\ SubSeq(sent, 1, at + 1) = RefMessages(SubSeq(log, 1, i + 1))
                /\ \A j \in 1..Len(log) : log[j].frame > log[i].frame => j > i + 1

(* the frame came first and a frame behind it was processed as well *)
C23_Witness ==
    /\ Len(log) = 3
    /\ RefHeadingThenBoatspeed(1)
    /\ log[3].frame = 2
    /\ Len(sent) = 3
    /\ sent[1] = <<36, 73, 73, 72, 68, 77, 44, 57, 49, 46, 48, 44, 77, 42, 49, 65>> \o <<10>>    \* "$IIHDM,91.0,M*1A"
    /\ sent[2] = <<36, 73, 73, 86, 72, 87, 44, 44, 44, 57, 49, 46, 48, 44, 77, 44, 52, 46, 50, 44, 78, 44, 44, 42, 55, 52>> \o <<10>>    \* "$IIVHW,,,91.0,M,4.2,N,,*74"
    /\ sent[3] = log[3].message
(* ---------------------------------------------------------------------- *)
(* C24: whenever frame_scanner waits for input, the buffer holds less than *)
(* one frame: fewer than the six bytes of the shortest frame, or the       *)
(* beginning of a frame whose header checksum matches and whose claimed    *)
(* length (at most 261 bytes) is not reached yet.  Everything else was     *)
(* handed on or dropped, so the buffer never holds more than 260 bytes     *)
(* behind which input is still awaited.                                    *)
(* ---------------------------------------------------------------------- *)
RefLongestFrame == 5 + 255 + 1

RefAwaitsRestOfFrame(buf) ==
    /\ Len(buf) >= 6
    /\ HeaderOkAt(buf, 0)
    /\ Len(buf) < ClaimedLength(buf, 0)

C24_BufferBounded ==
    pc = "get" =>
        /\ Len(buffer) < RefLongestFrame
        /\ Len(buffer) < 6 \/ RefAwaitsRestOfFrame(buffer)
(* ---------------------------------------------------------------------- *)
(* fn2ip.py, the three threads around the two queues: serial_reader puts   *)
(* what it read on raw_queue, frame_scanner makes the update_live_data     *)
(* calls of a frame one by one and each trigger puts its sentence on       *)
(* output_queue, output_monitor takes the sentences and sends them.  Both  *)
(* queues are queue.Queue(maxsize=...) and both puts are put(item) with no *)
(* timeout: on a full queue the call waits for a free slot.                *)
(* ---------------------------------------------------------------------- *)
MaxOutputQueue == 1  \* sentences waiting in output_queue (OUTPUT_QUEUE_SIZE in the code)

OutputStreams ==
    {FrameS1 \o FrameS1 \o FrameS1,
     FrameUnknownChannel,
     <<241>> \o FrameLatLon \o FrameKeepAlive,
     FrameAsciiEmpty}
        \cup ResyncStreams

InitOutput ==
    /\ stream \in OutputStreams
    /\ wire = stream
    /\ raw_queue = <<>>
    /\ buffer = <<>>
    /\ pc = "get"
    /\ live_data = EmptyLive
    /\ output_queue = <<>>
    /\ utcnow = 0
    /\ log = <<>>
    /\ handed = NothingHanded
    /\ dec = NoDecode
    /\ ThreadsIdle
    /\ BridgeIdle

OutputUntouched == UNCHANGED <<thread_vars, frame_queue, args, input_source, udp_socket,
                               exit_status, errors, dec, stream, utcnow>>

(* data = ser.read(ser.in_waiting or 256) *)
SerRead(n) ==
    /\ in_hand = <<>>
    /\ n <= Len(wire)
    /\ in_hand' = SubSeq(wire, 1, n)
    /\ wire' = SubSeq(wire, n + 1, Len(wire))
    /\ UNCHANGED <<raw_queue, buffer, pc, updates, live_data, output_queue, sent, log, handed>>
    /\ OutputUntouched

(* a put that gives up on a full queue: the data read is thrown away *)
RawQueuePut_drops_when_full ==
    /\ in_hand # <<>>
    /\ raw_queue' = IF Len(raw_queue) < MaxRawQueue THEN Append(raw_queue, in_hand)
                    ELSE raw_queue
    /\ in_hand' = <<>>
    /\ UNCHANGED <<wire, buffer, pc, updates, live_data, output_queue, sent, log, handed>>
    /\ OutputUntouched

(* raw_queue.put(data) returns *)
RawQueuePut ==
    /\ in_hand # <<>>
    /\ Len(raw_queue) < MaxRawQueue
    /\ raw_queue' = Append(raw_queue, in_hand)
    /\ in_hand' = <<>>
    /\ UNCHANGED <<wire, buffer, pc, updates, live_data, output_queue, sent, log, handed>>
    /\ OutputUntouched

(* command == 0x01: process_frame(frame) is entered *)
ProcessFrameCall ==
    /\ ValidFrame
    /\ buffer[4] = 1
    /\ updates' = UpdatesOf(process_frame_triples(FrontFrame))
    /\ handed' = Handed(FrontFrame, process_frame_body(FrontFrame),
                         process_frame_triples(FrontFrame), Len(buffer) - Len(FrontFrame))
    /\ log' = Append(log, Event("frame", Base, FrontFrame))
    /\ pc' = "update"
    /\ UNCHANGED <<wire, in_hand, raw_queue, buffer, live_data, output_queue, sent>>
    /\ OutputUntouched

(* command == 0x03: process_ascii_frame(frame) is entered and does not raise *)
ProcessAsciiCall ==
    /\ ValidFrame
    /\ buffer[4] = 3
    /\ ~process_ascii_frame_raises(FrontFrame)
    /\ updates' = process_ascii_frame_updates(FrontFrame)
    /\ handed' = Handed(FrontFrame, Slice(FrontFrame, 7, Len(FrontFrame) - 1), <<>>,
                         Len(buffer) - Len(FrontFrame))
    /\ log' = Append(log, Event("frame", Base, FrontFrame))
    /\ pc' = "update"
    /\ UNCHANGED <<wire, in_hand, raw_queue, buffer, live_data, output_queue, sent>>
    /\ OutputUntouched

(* update_live_data(channel_name, value): the store is written and the     *)
(* trigger called; a trigger that raises or a channel without one is done, *)
(* else the trigger has built its sentence and calls output_queue.put      *)
TriggerCall ==
    /\ pc = "update"
    /\ updates # <<>>
    /\ \E stored \in {live_data_put(live_data, Head(updates).channel_name,
                                    Head(updates).value, utcnow)} :
           /\ live_data' = stored
           /\ IF trigger_functions(Head(updates).channel_name, Head(updates).value,
                                   stored, utcnow) = <<>>
              THEN updates' = Tail(updates) /\ pc' = "update"
              ELSE updates' = updates /\ pc' = "put"
    /\ UNCHANGED <<wire, in_hand, raw_queue, buffer, output_queue, sent, log, handed>>
    /\ OutputUntouched

(* output_queue.put(sentence) returns *)
OutputQueuePut ==
    /\ pc = "put"
    /\ Len(output_queue) < MaxOutputQueue
    /\ output_queue' = output_queue
           \o trigger_functions(Head(updates).channel_name, Head(updates).value,
                                live_data, utcnow)
    /\ updates' = Tail(updates)
    /\ pc' = "update"
    /\ UNCHANGED <<wire, in_hand, raw_queue, buffer, live_data, sent, log, handed>>
    /\ OutputUntouched

(* the decoder returns: buffer = buffer[full_frame_length:] *)
ProcessFrameReturn ==
    /\ pc = "update"
    /\ updates = <<>>
    /\ Advance
    /\ pc' = "scan"
    /\ UNCHANGED <<wire, in_hand, raw_queue, updates, live_data, output_queue, sent, log,
                   handed>>
    /\ OutputUntouched

(* output_monitor: message = output_queue.get(...); sock.sendto(message)   *)
OutputMonitor ==
    /\ output_queue # <<>>
    /\ sent' = Append(sent, Head(output_queue))
    /\ output_queue' = Tail(output_queue)
    /\ UNCHANGED <<wire, in_hand, raw_queue, buffer, pc, updates, live_data, log, handed>>
    /\ OutputUntouched

NextOutput ==
    \/ \E n \in 1..MaxChunk : SerRead(n)
    \/ RawQueuePut
    \/ ScannerGet
    \/ ScanShort
    \/ HeaderMismatch
    \/ Incomplete
    \/ BodyMismatch
    \/ ProcessFrameCall
    \/ ProcessAsciiCall
    \/ FrameAsciiRaises
    \/ FrameIgnored
    \/ TriggerCall
    \/ OutputQueuePut
    \/ ProcessFrameReturn
    \/ OutputMonitor

SpecOutput == InitOutput /\ [][NextOutput]_vars

(* ---------------------------------------------------------------------- *)
(* C25: however slow output_monitor is, frame_scanner never waits inside   *)
(* output_queue.put and serial_reader never waits inside raw_queue.put.    *)
(* ---------------------------------------------------------------------- *)
RefScannerWaits == pc = "put" /\ Len(output_queue) >= MaxOutputQueue

RefReaderWaits == in_hand # <<>> /\ Len(raw_queue) >= MaxRawQueue

C25_PutNeverWaits == ~RefScannerWaits /\ ~RefReaderWaits
(* ---------------------------------------------------------------------- *)
(* fastnet2ip.py: main.  initialize_input_source opens the serial port or  *)
(* reads the hex file and cuts it into chunks of 256 bytes; the loop reads *)
(* a chunk, gives it to the frame buffer and processes the frames the      *)
(* buffer completed; at the end of the file the loop is left and the       *)
(* socket closed.  Texts are sequences of character codes.                 *)
(* ---------------------------------------------------------------------- *)
ChunkSize == 256

Min(a, b) == IF a <= b THEN a ELSE b

IsNotBlank(c) == c # 32

(* hex_data = file.read().strip().replace(" ", "") *)
hex_data_of(text) == SelectSeq(Strip(text), IsNotBlank)

(* the whitespace bytes.fromhex skips in front of a pair of digits *)
Py_ISSPACE(c) == c \in {9, 10, 11, 12, 13, 32}

IsNotSpace(c) == ~Py_ISSPACE(c)

hex_value(c) ==
    IF c >= 48 /\ c <= 57 THEN c - 48
    ELSE IF c >= 65 /\ c <= 70 THEN c - 55
    ELSE IF c >= 97 /\ c <= 102 THEN c - 87
    ELSE -1

(* bytes.fromhex raises ValueError: a character that is no digit, a digit  *)
(* without its pair, or whitespace between the two digits of a pair        *)
fromhex_raises(hex_data) ==
    \/ \E i \in 1..Len(hex_data) :
           IsNotSpace(hex_data[i]) /\ hex_value(hex_data[i]) = -1
    \/ Len(SelectSeq(hex_data, IsNotSpace)) % 2 = 1
    \/ \E i \in 1..Len(hex_data) :
           /\ Py_ISSPACE(hex_data[i])
           /\ Len(SelectSeq(SubSeq(hex_data, 1, i), IsNotSpace)) % 2 = 1

pairs_of(digits) ==
    [k \in 1..(Len(digits) \div 2) |->
        16 * hex_value(digits[2 * k - 1]) + hex_value(digits[2 * k])]

bytes_fromhex(hex_data) ==
    CHOOSE bytes \in {pairs_of(digits) : digits \in {SelectSeq(hex_data, IsNotSpace)}} :
        TRUE

(* an iterator that gives the whole file at once *)
chunks_of_whole_file(binary_data) == <<binary_data>>

(* [binary_data[i:i+256] for i in range(0, len(binary_data), 256)] *)
chunks_of(binary_data) ==
    [k \in 1..((Len(binary_data) + ChunkSize - 1) \div ChunkSize) |->
        SubSeq(binary_data, ChunkSize * (k - 1) + 1,
               Min(ChunkSize * k, Len(binary_data)))]

(* what initialize_input_source returns: whether input_source is not None, *)
(* is_file, the chunks of the file iterator, and what logger.error got     *)
Source(ok, is_file, chunks, logged) ==
    [ok |-> ok, is_file |-> is_file, chunks |-> chunks, logged |-> logged]

file_source(hex_data) ==
    IF hex_data = <<>>
    THEN Source(FALSE, TRUE, <<>>, <<"The specified file is empty.">>)
    ELSE IF fromhex_raises(hex_data)
    THEN Source(FALSE, TRUE, <<>>, <<"Invalid file format">>)
    ELSE CHOOSE r \in {Source(TRUE, TRUE, chunks_of(binary_data), <<>>) :
                          binary_data \in {bytes_fromhex(hex_data)}} : TRUE

initialize_input_source(a) ==
    IF a.serial # ""
    THEN IF a.opens THEN Source(TRUE, FALSE, <<>>, <<>>)
         ELSE Source(FALSE, FALSE, <<>>,
                     <<"Failed to open serial port", "Please check the port name">>)
    ELSE IF a.file # ""
    THEN IF ~a.found THEN Source(FALSE, TRUE, <<>>, <<"File not found">>)
         ELSE CHOOSE r \in {file_source(hex_data) : hex_data \in {hex_data_of(a.text)}} :
                  TRUE
    ELSE Source(FALSE, FALSE, <<>>, <<"No valid input source specified.">>)

is_file_of(a) == a.serial = "" /\ a.file # ""

MainUntouched == UNCHANGED <<thread_vars, in_hand, updates, dec, stream, raw_queue,
                             output_queue, handed, utcnow>>

(* input_source, is_file = initialize_input_source(args); if not           *)
(* input_source: return; udp_socket = setup_udp_socket()                   *)
MainStart ==
    /\ pc = "start"
    /\ \E r \in {initialize_input_source(args)} :
           /\ errors' = errors \o r.logged
           /\ input_source' = r.chunks
           /\ IF r.ok
              THEN udp_socket' = "open" /\ pc' = "read" /\ exit_status' = exit_status
              ELSE udp_socket' = udp_socket /\ pc' = "exited" /\ exit_status' = 0
    /\ UNCHANGED <<args, wire, buffer, frame_queue, live_data, sent, log>>
    /\ MainUntouched

(* the frames frame_buffer.get_complete_frames() puts on frame_queue *)
Completed == {<<>>} \cup Batches(MaxFrames - FramesDone(log))

(* new_data = next(input_source); frame_buffer.add_to_buffer(new_data);    *)
(* frame_buffer.get_complete_frames().  buffer is every byte given to      *)
(* add_to_buffer so far.                                                   *)
ReadFileChunk ==
    /\ pc = "read"
    /\ is_file_of(args)
    /\ input_source # <<>>
    /\ buffer' = buffer \o Head(input_source)
    /\ input_source' = Tail(input_source)
    /\ \E frames \in Completed : frame_queue' = frames
    /\ pc' = "process"
    /\ UNCHANGED <<args, wire, udp_socket, exit_status, errors, live_data, sent, log>>
    /\ MainUntouched

(* next(input_source) raises StopIteration: new_data is None, break;       *)
(* finally: udp_socket.close()                                             *)
ReadFileEnd ==
    /\ pc = "read"
    /\ is_file_of(args)
    /\ input_source = <<>>
    /\ udp_socket' = "closed"
    /\ exit_status' = 0
    /\ pc' = "exited"
    /\ UNCHANGED <<args, wire, buffer, input_source, errors, frame_queue, live_data, sent,
                   log>>
    /\ MainUntouched

(* select says the port is readable: new_data = input_source.read(256) *)
ReadSerial(n) ==
    /\ pc = "read"
    /\ ~is_file_of(args)
    /\ n <= Min(ChunkSize, Len(wire))
    /\ buffer' = buffer \o SubSeq(wire, 1, n)
    /\ wire' = SubSeq(wire, n + 1, Len(wire))
    /\ \E frames \in Completed : frame_queue' = frames
    /\ pc' = "process"
    /\ UNCHANGED <<args, input_source, udp_socket, exit_status, errors, live_data, sent,
                   log>>
    /\ MainUntouched

(* ---------------------------------------------------------------------- *)
(* The command lines and the files they name.  A capture file is written   *)
(* by tools/record_fn.py: the lower-case hex of every read on a line.      *)
(* ---------------------------------------------------------------------- *)
HexChar(d) == IF d < 10 THEN 48 + d ELSE 87 + d

(* n bytes of the bus: the frame FrameS1 over and over *)
Capture(n) == [i \in 1..n |-> FrameS1[((i - 1) % Len(FrameS1)) + 1]]

(* the bytes as hex, a newline behind every `line` bytes *)
HexFile(bytes, line) ==
    LET width == 2 * line + 1
        full == Len(bytes) \div line
        tail == Len(bytes) % line
    IN  [k \in 1..(width * full + (IF tail = 0 THEN 0 ELSE 2 * tail + 1)) |->
            LET row == (k - 1) \div width
                col == (k - 1) % width
                byte == bytes[row * line + (col \div 2) + 1]
            IN  IF col = 2 * line \/ (row = full /\ col = 2 * tail) THEN 10
                ELSE IF col % 2 = 0 THEN HexChar(byte \div 16)
                ELSE HexChar(byte % 16)]

ReplayFiles ==
    {HexFile(Capture(n), line) : n \in {10, 256, 260, 513}, line \in {10, 64}}
        \cup {<<48, 49, 32, 48, 57, 32, 48, 52, 32, 48, 49, 32, 70, 49, 32, 52, 49, 32, 48, 49, 32, 48, 48, 32, 53, 66, 32, 54, 51>>}    \* "01 09 04 01 F1 41 01 00 5B 63"

BadFiles ==
    {<<>>, <<32, 32>> \o <<10>>, <<52, 103>>, <<65, 66, 67>>, <<48>> \o <<10>> \o <<49>>, <<48, 49, 44, 48, 57>>}    \* "  " "4g" "ABC" "0" "1" "01,09"

MainArgs ==
    {Args("", FALSE, "", FALSE, <<>>),
     Args("/dev/ttyUSB0", FALSE, "", FALSE, <<>>),
     Args("/dev/ttyUSB0", TRUE, "", FALSE, <<>>),
     Args("", FALSE, "missing.txt", FALSE, <<>>)}
        \cup {Args("", FALSE, "capture.txt", TRUE, text) : text \in ReplayFiles \cup BadFiles}

InitMainWith(a) ==
    /\ args = a
    /\ stream = IF a.serial # "" /\ a.opens THEN FrameS1 ELSE <<>>
    /\ wire = stream
    /\ pc = "start"
    /\ input_source = <<>>
    /\ udp_socket = "none"
    /\ exit_status = -1
    /\ errors = <<>>
    /\ in_hand = <<>>
    /\ updates = <<>>
    /\ raw_queue = <<>>
    /\ buffer = <<>>
    /\ live_data = EmptyStore
    /\ output_queue = <<>>
    /\ utcnow = 0
    /\ log = <<>>
    /\ handed = NothingHanded
    /\ dec = NoDecode
    /\ frame_queue = <<>>
    /\ sent = <<>>
    /\ ThreadsIdle

InitMain == \E a \in MainArgs : InitMainWith(a)

NextMain ==
    \/ MainStart
    \/ ReadFileChunk
    \/ ReadFileEnd
    \/ \E n \in 1..MaxChunk : ReadSerial(n)
    \/ ProcessFrameQueue

SpecMain == InitMain /\ [][NextMain]_vars
(* ---------------------------------------------------------------------- *)
(* fastnet2ip.py --file on a capture that parses: the loop is one thread   *)
(* and every pass ends, so it keeps taking steps until it is left.         *)
(* ---------------------------------------------------------------------- *)
ReplayArgs == {Args("", FALSE, "capture.txt", TRUE, text) : text \in ReplayFiles}

InitReplay == \E a \in ReplayArgs : InitMainWith(a)

NextReplay ==
    \/ MainStart
    \/ ReadFileChunk
    \/ ReadFileEnd
    \/ ProcessFrameQueue

(* main() is the only thread of the bridge: it is never descheduled for     *)
(* good, so from every position but the last its position changes.  Every   *)
(* step of NextReplay changes pc, and one is possible wherever pc is not    *)
(* "exited" (read_input_source, get_complete_frames and                     *)
(* process_frame_queue all return).                                         *)
MainAdvances ==
    /\ pc # "exited"
    /\ pc' \in {"read", "process", "exited"} \ {pc}

SpecReplay == InitReplay /\ [][NextReplay]_vars /\ WF_pc(MainAdvances)

(* ---------------------------------------------------------------------- *)
(* C26: replaying a file of valid hex, the main loop is left in the end.   *)
(* Until then every pass gives the next 256 bytes of the file (the rest,   *)
(* for the last pass) to the frame buffer and processes every frame the    *)
(* buffer completed before it reads again; the loop is left only when the  *)
(* whole file was given to the buffer and no frame waits, and leaving it   *)
(* closes the UDP socket.                                                  *)
(* ---------------------------------------------------------------------- *)
RefIsHexDigit(c) == (c >= 48 /\ c <= 57) \/ (c >= 65 /\ c <= 70) \/ (c >= 97 /\ c <= 102)

RefDigit(c) == IF c <= 57 THEN c - 48 ELSE IF c <= 70 THEN c - 55 ELSE c - 87

(* the bytes a file of hex digits stands for, whitespace ignored *)
RefPairs(digits) ==
    [k \in 1..(Len(digits) \div 2) |->
        16 * RefDigit(digits[2 * k - 1]) + RefDigit(digits[2 * k])]

RefFileBytes(text) ==
    CHOOSE bytes \in {RefPairs(digits) : digits \in {SelectSeq(text, RefIsHexDigit)}} :
        TRUE

RefNextChunk(bytes, given) ==
    SubSeq(bytes, Len(given) + 1, Min(Len(given) + 256, Len(bytes)))

C26_Step ==
    \A bytes \in {RefFileBytes(args.text)} :
        /\ pc = "read" /\ pc' = "process" =>
               /\ Len(buffer) < Len(bytes)
               /\ buffer' = buffer \o RefNextChunk(bytes, buffer)
        /\ pc = "process" =>
               /\ pc' = "read"
               /\ frame_queue' = <<>>
               /\ FramesDone(log') = FramesDone(log) + Len(frame_queue)
               /\ buffer' = buffer
        /\ pc' = "exited" =>
               /\ pc = "read"
               /\ buffer = bytes
               /\ frame_queue = <<>>
               /\ udp_socket = "open"
               /\ udp_socket' = "closed"

C26_ReplayTerminates == <>(pc = "exited") /\ [][C26_Step]_vars

(* a capture of 513 bytes was given to the buffer in three chunks, two     *)
(* frames were processed on the way, the loop is left, the socket closed   *)
C26_Witness ==
    /\ pc = "exited"
    /\ udp_socket = "closed"
    /\ Len(buffer) = 2 * ChunkSize + 1
    /\ buffer = Capture(513)
    /\ FramesDone(log) = 2
    /\ sent # <<>>

(* ---------------------------------------------------------------------- *)
(* C27: started on a configuration error (no input source given, a file   *)
(* that is missing, a file that is empty, a file that is not hexadecimal,  *)
(* a serial port that cannot be opened) the program logs an error and      *)
(* exits with a non-zero status, no UDP socket created and no input given  *)
(* to the frame buffer or processed.                                       *)
(* ---------------------------------------------------------------------- *)
RefIsWhite(c) == c \in {9, 10, 11, 12, 13, 32}

RefRunStarts(text) ==
    {i \in DOMAIN text : ~RefIsWhite(text[i]) /\ (i = 1 \/ RefIsWhite(text[i - 1]))}

RefRunEnd(text, i) ==
    CHOOSE j \in i..Len(text) :
        /\ \A k \in i..j : ~RefIsWhite(text[k])
        /\ j = Len(text) \/ RefIsWhite(text[j + 1])

(* hexadecimal text: at least one group of digits, every group a whole     *)
(* number of two-digit bytes; blanks inside a group do not count           *)
RefIsHexText(text) ==
    \E joined \in {SelectSeq(text, LAMBDA c : c # 32)} :
        /\ RefRunStarts(joined) # {}
        /\ \A i \in DOMAIN joined : RefIsWhite(joined[i]) \/ RefIsHexDigit(joined[i])
        /\ \A i \in RefRunStarts(joined) : (RefRunEnd(joined, i) - i + 1) % 2 = 0

RefIsEmptyText(text) == \A i \in DOMAIN text : RefIsWhite(text[i])

RefConfigError(a) ==
    IF a.serial # "" THEN ~a.opens
    ELSE IF a.file # "" THEN ~a.found \/ RefIsEmptyText(a.text) \/ ~RefIsHexText(a.text)
    ELSE TRUE

C27_Step ==
    pc = "start" /\ RefConfigError(args) =>
        /\ pc' = "exited"
        /\ Len(errors') > Len(errors)
        /\ exit_status' > 0
        /\ udp_socket' = "none"
        /\ buffer' = <<>> /\ frame_queue' = <<>> /\ log' = <<>> /\ sent' = <<>>

C27_ConfigErrorExitsNonZero == [][C27_Step]_vars

(* ---------------------------------------------------------------------- *)
(* C28: when the scanner meets a valid frame at the front of its buffer,   *)
(* what happens depends on the command byte only.  A command other than    *)
(* 0x01 and 0x03 (keep-alive 0x0C, light intensity 0xC9, any other): the   *)
(* frame is taken off the buffer, the live store and the output queue stay *)
(* as they were.  Command 0x01: the body is decoded as numeric channel     *)
(* triples, which are stored.  Command 0x03: the bytes behind the channel  *)
(* and format bytes are stored as the text of the channel when they are    *)
(* ASCII (a 0x03 frame too short to hold them is the case of C3).          *)
(* ---------------------------------------------------------------------- *)
RefStrWhite(c) == c \in (9..13) \cup (28..32)

(* t is data without the white space at its ends *)
RefStripped(data, t) ==
    \E a \in 0..Len(data) :
        /\ a + Len(t) <= Len(data)
        /\ t = SubSeq(data, a + 1, a + Len(t))
        /\ \A i \in 1..a : RefStrWhite(data[i])
        /\ \A i \in (a + Len(t) + 1)..Len(data) : RefStrWhite(data[i])
        /\ t = <<>> \/ (~RefStrWhite(t[1]) /\ ~RefStrWhite(t[Len(t)]))

RefMeetsValidFrame ==
    /\ pc = "scan"
    /\ ValidFrameAt(buffer, 0)
    /\ Len(log') = Len(log) + 1

RefBehindFrame == SubSeq(buffer, ClaimedLength(buffer, 0) + 1, Len(buffer))

RefOtherCommand(frame) ==
    /\ buffer' = RefBehindFrame
    /\ live_data' = live_data
    /\ output_queue' = output_queue

RefNumericDecoder(frame) ==
    /\ buffer' = RefBehindFrame
    /\ RefStored(RefTriples(RefBody(frame)), live_data')
    /\ RefOnly(RefTriples(RefBody(frame)), live_data, live_data')

RefAsciiDecoder(frame) ==
    \E data \in {SubSeq(frame, 8, Len(frame) - 1)},
       name \in {CHANNEL_LOOKUP(frame[6], "process_ascii_frame")} :
        /\ buffer' = RefBehindFrame
        /\ name \in DOMAIN live_data'
        /\ live_data'[name].value.kind = "text"
        /\ RefStripped(data, live_data'[name].value.v)
        /\ \A n \in DOMAIN live_data' \ {name} :
               n \in DOMAIN live_data /\ live_data'[n] = live_data[n]

C28_Step ==
    RefMeetsValidFrame =>
        \E frame \in {FrameAt(buffer, 0)} :
            CASE frame[4] = 1 -> RefNumericDecoder(frame)
              [] frame[4] = 3 ->
                     Len(frame) >= 8 /\ (\A i \in 8..(Len(frame) - 1) : frame[i] < 128) =>
                         RefAsciiDecoder(frame)
              [] OTHER -> RefOtherCommand(frame)

C28_CommandDispatch == [][C28_Step]_vars

C28_Witness ==
    /\ stream = FrameLightIntensity \o FrameLatLon
    /\ Len(log) = 2
    /\ log[1].kind = "ignored" /\ log[1].bytes = FrameLightIntensity
    /\ log[2].bytes = FrameLatLon
    /\ buffer = <<>>
    /\ DOMAIN live_data = {"LatLon"}
    /\ live_data["LatLon"].value = Val("text", <<49, 78, 50, 87>>, 1)

(* ---------------------------------------------------------------------- *)
(* The GLL builders on their own: a LatLon text of at most MaxLatLon       *)
(* characters is either the one update fn2ip.py's decoder has still to     *)
(* store (update_live_data, the trigger, output_queue.put, output_monitor) *)
(* or the one frame waiting in fastnet2ip.py's frame queue                 *)
(* (process_frame_queue).                                                  *)
(* ---------------------------------------------------------------------- *)
MaxLatLon == 4

LatLonChars == {49, 46, 78, 83, 69, 87}    \* "1" "." "N" "S" "E" "W"

InitGll ==
    /\ stream = <<>>
    /\ wire = <<>>
    /\ raw_queue = <<>>
    /\ buffer = <<>>
    /\ output_queue = <<>>
    /\ utcnow = 0
    /\ log = <<>>
    /\ handed = NothingHanded
    /\ dec = NoDecode
    /\ ThreadsIdle
    /\ sent = <<>>
    /\ in_hand = <<>>
    /\ args = NoArgs
    /\ input_source = <<>>
    /\ udp_socket = "none"
    /\ exit_status = -1
    /\ errors = <<>>
    /\ \E k \in 0..MaxLatLon :
           \E latlon_str \in [1..k -> LatLonChars] :
               \/ /\ pc = "update"
                  /\ updates = <<Update("LatLon", Val("text", latlon_str, 1))>>
                  /\ live_data = EmptyLive
                  /\ frame_queue = <<>>
               \/ /\ pc = "process"
                  /\ frame_queue = <<<<Channel("LatLon", 71, Val("text", latlon_str, 1))>>>>
                  /\ live_data = EmptyStore
                  /\ updates = <<>>

NextGll ==
    \/ TriggerCall
    \/ OutputQueuePut
    \/ OutputMonitor
    \/ ProcessFrameQueue

SpecGll == InitGll /\ [][NextGll]_vars

(* ---------------------------------------------------------------------- *)
(* C29: for a well-formed LatLon text (latitude digits, N or S, longitude  *)
(* digits, E or W) the GLL sentence of either program carries, in its      *)
(* first four fields, the latitude digits, the latitude hemisphere, the    *)
(* longitude digits and the longitude hemisphere of the text.              *)
(* ---------------------------------------------------------------------- *)
RefIsDigits(text) ==
    text # <<>> /\ \A i \in DOMAIN text : text[i] = 46 \/ (text[i] >= 48 /\ text[i] <= 57)

RefShape(text, i) ==
    /\ i \in 2..(Len(text) - 2)
    /\ RefIsDigits(SubSeq(text, 1, i - 1))
    /\ text[i] \in {78, 83}
    /\ RefIsDigits(SubSeq(text, i + 1, Len(text) - 1))
    /\ text[Len(text)] \in {69, 87}

RefWellFormed(text) == \E i \in DOMAIN text : RefShape(text, i)

RefParts(text) ==
    LET i == CHOOSE i \in DOMAIN text : RefShape(text, i)
    IN  <<SubSeq(text, 1, i - 1), <<text[i]>>, SubSeq(text, i + 1, Len(text) - 1),
          <<text[Len(text)]>>>>

(* fn2ip.py has stored the text and its trigger has returned or raised *)
RefStandaloneDone ==
    pc = "update" /\ updates = <<>> /\ DOMAIN live_data = {"LatLon"} /\ frame_queue = <<>>

RefStandaloneText == live_data["LatLon"].value.v

RefStandaloneOut == sent \o output_queue

(* fastnet2ip.py has processed the frame *)
RefBridgeDone == pc = "read" /\ Len(log) = 1 /\ log[1].channel_name = "LatLon"

RefBridgeText == log[1].interpreted.v

C29_GllRoundTrip ==
    /\ RefStandaloneDone /\ RefWellFormed(RefStandaloneText) =>
           /\ Len(RefStandaloneOut) = 1
           /\ RefStandaloneOut[1].id = "GPGLL"
           /\ \A f \in 1..4 :
                  RefStandaloneOut[1].args[f] = Val("text", RefParts(RefStandaloneText)[f], 1)
    /\ RefBridgeDone /\ RefWellFormed(RefBridgeText) =>
           /\ Len(sent) = 1
           /\ RefFields(sent[1])[1] = <<36, 71, 80, 71, 76, 76>>    \* "$GPGLL"
           /\ \A f \in 1..4 : RefFields(sent[1])[f + 1] = RefParts(RefBridgeText)[f]

C29_Witness ==
    /\ RefBridgeDone
    /\ RefBridgeText = <<49, 83, 49, 87>>    \* "1S1W"
    /\ sent = <<<<36, 71, 80, 71, 76, 76, 44, 49, 44, 83, 44, 49, 44, 87, 44, 48, 48, 48, 48, 48, 48, 44, 65, 42, 49, 53, 10>>>>    \* "$GPGLL,1,S,1,W,000000,A*15"

(* ---------------------------------------------------------------------- *)
(* C30: the GLL builder of either program gives no sentence for a LatLon   *)
(* text that is not latitude digits, N or S, longitude digits, E or W:     *)
(* a text whose hemisphere letters are missing, repeated or out of order   *)
(* is answered with null, and nothing is queued or sent for it.            *)
(* ---------------------------------------------------------------------- *)
C30_MalformedGivesNull ==
    /\ RefStandaloneDone /\ ~RefWellFormed(RefStandaloneText) => RefStandaloneOut = <<>>
    /\ RefBridgeDone /\ ~RefWellFormed(RefBridgeText) =>
           sent = <<>> /\ ~RefIsMessage(log[1].message)

(* ---------------------------------------------------------------------- *)
(* C31: the checksum of every block of bytes is a value in 0..255, the     *)
(* negated sum of the block modulo 256; a block whose sum is a multiple of *)
(* 256, the empty block included, has checksum 0.  The scanner takes a     *)
(* frame off its buffer only when the byte at offset 4 is this value for   *)
(* the four bytes before it.  The blocks are the beginnings of the         *)
(* scanner's buffer.                                                       *)
(* ---------------------------------------------------------------------- *)
RECURSIVE RefTotal(_, _)
RefTotal(s, n) == IF n = 0 THEN 0 ELSE s[n] + RefTotal(s, n - 1)

RefNegatedSum(s, n) == (0 - RefTotal(s, n)) % 256

RefChecksumOfBlock(s, n) ==
    \E c \in {calculate_checksum(SubSeq(s, 1, n))} :
        /\ c \in 0..255
        /\ c = RefNegatedSum(s, n)
        /\ RefTotal(s, n) % 256 = 0 => c = 0

RefTakesFrame ==
    /\ Len(log') = Len(log) + 1
    /\ log'[Len(log')].kind \in {"frame", "ignored"}

C31_Step ==
    /\ \A n \in 0..Len(buffer) : RefChecksumOfBlock(buffer, n)
    /\ RefTakesFrame => Len(buffer) >= 5 /\ buffer[5] = RefNegatedSum(buffer, 4)

C31_ChecksumIsNegatedSum == [][C31_Step]_vars

C31_Witness ==
    /\ stream = <<241>> \o FrameLatLon \o FrameKeepAlive
    /\ Len(log) = 3
    /\ log[1].kind = "header"
    /\ log[3].bytes = FrameKeepAlive
    /\ calculate_checksum(<<>>) = 0
    /\ calculate_checksum(SubSeq(FrameKeepAlive, 1, 4)) = 234

(* ---------------------------------------------------------------------- *)
(* Both programs side by side: a behaviour is one of fn2ip.py's scanner    *)
(* (pc "get" or "scan") or one of fastnet2ip.py's loop (pc "read" or       *)
(* "process").                                                             *)
(* ---------------------------------------------------------------------- *)
InitStore == InitChannels \/ InitBridge

NextStore == Next \/ NextBridge

SpecStore == InitStore /\ [][NextStore]_vars

(* ---------------------------------------------------------------------- *)
(* C32: the live store holds one record for each channel name that was     *)
(* ever updated and never loses one; reading a channel gives the value of  *)
(* its most recent update; a step changes no record but those of the       *)
(* channels it updates.                                                    *)
(* ---------------------------------------------------------------------- *)
RefChanged == {n \in DOMAIN live_data' : n \notin DOMAIN live_data \/ live_data'[n] # live_data[n]}

(* fn2ip.py: the updates a frame brings, in order: name and value *)
RefFrameUpdates(frame) ==
    IF frame[4] = 1
    THEN LET decoded == SelectSeq(RefTriples(RefBody(frame)), RefDecodes)
         IN  [i \in 1..Len(decoded) |-> <<RefName(decoded[i]), RefValue(decoded[i])>>]
    ELSE IF frame[4] = 3 /\ Len(frame) >= 8 /\ \A i \in 8..(Len(frame) - 1) : frame[i] < 128
    THEN <<<<CHANNEL_LOOKUP(frame[6], "process_ascii_frame"),
             CHOOSE t \in {Val("text", SubSeq(frame, a, b), 1) : a \in 8..Len(frame),
                                                                  b \in 7..(Len(frame) - 1)} :
                 RefStripped(SubSeq(frame, 8, Len(frame) - 1), t.v)>>>>
    ELSE <<>>

RefLastUpdate(ups, n) ==
    ups[CHOOSE i \in DOMAIN ups :
            ups[i][1] = n /\ \A k \in (i + 1)..Len(ups) : ups[k][1] # n][2]

RefStandaloneStore ==
    /\ DOMAIN live_data \subseteq DOMAIN live_data'
    /\ \E ups \in {IF Len(log') = Len(log) + 1 /\ log'[Len(log')].kind = "frame"
                   THEN RefFrameUpdates(log'[Len(log')].bytes) ELSE <<>>} :
           /\ \A n \in RefChanged : \E i \in DOMAIN ups : ups[i][1] = n
           /\ \A i \in DOMAIN ups :
                  get_live_data(live_data', ups[i][1]) = RefLastUpdate(ups, ups[i][1])

(* fastnet2ip.py: the store against the channels processed so far *)
RefBridgeStore(live, hist) ==
    /\ DOMAIN live = {hist[j].channel_name : j \in DOMAIN hist}
    /\ \A n \in DOMAIN live :
           \E latest \in {hist[CHOOSE j \in DOMAIN hist :
                                   /\ hist[j].channel_name = n
                                   /\ \A k \in (j + 1)..Len(hist) :
                                          hist[k].channel_name # n].interpreted} :
               /\ live[n].interpreted_value = latest
               /\ latest.kind = "num" => get_live_data_float(live, n) = latest
               /\ latest.kind = "text" => get_live_data_string(live, n) = latest

C32_Step ==
    /\ pc \in {"get", "scan"} => RefStandaloneStore
    /\ pc \in {"read", "process"} =>
           /\ DOMAIN live_data \subseteq DOMAIN live_data'
           /\ RefBridgeStore(live_data', log')
           /\ \A n \in RefChanged : \E j \in (Len(log) + 1)..Len(log') : log'[j].channel_name = n

C32_OneRecordLatestValue == [][C32_Step]_vars

C32_Witness ==
    /\ pc = "read"
    /\ Len(log) = 3
    /\ log[1].channel_name = "Heading" /\ log[2].channel_name = "Boatspeed (Knots)"
    /\ log[3].channel_name = "Heading"
    /\ DOMAIN live_data = {"Heading", "Boatspeed (Knots)"}
    /\ get_live_data_float(live_data, "Boatspeed (Knots)") = Num(42, 10)

(* ---------------------------------------------------------------------- *)
(* C33 as stated: the payload of an ASCII frame behind the channel id and  *)
(* the format byte is stored as it is but for the white space at its end.  *)
(* ---------------------------------------------------------------------- *)
RefHandsAscii ==
    /\ Len(log') = Len(log) + 1
    /\ log'[Len(log')].kind = "frame"
    /\ log'[Len(log')].bytes[4] = 3
    /\ Len(log'[Len(log')].bytes) >= 8

RefAsciiPayload == SubSeq(HandedFrame, 8, Len(HandedFrame) - 1)

RefAsciiName == CHANNEL_LOOKUP(HandedFrame[6], "process_ascii_frame")

RefIsAsciiText(data) == \A i \in DOMAIN data : data[i] < 128

(* t is data without the white space at its end *)
RefRightStripped(data, t) ==
    /\ Len(t) <= Len(data)
    /\ t = SubSeq(data, 1, Len(t))
    /\ \A i \in (Len(t) + 1)..Len(data) : RefStrWhite(data[i])
    /\ t = <<>> \/ ~RefStrWhite(t[Len(t)])

C33_Original ==
    [][RefHandsAscii /\ RefIsAsciiText(RefAsciiPayload) =>
           /\ RefAsciiName \in DOMAIN live_data'
           /\ live_data'[RefAsciiName].value.kind = "text"
           /\ RefRightStripped(RefAsciiPayload, live_data'[RefAsciiName].value.v)]_vars

(* ---------------------------------------------------------------------- *)
(* C33: the payload of an ASCII frame behind the channel id and the format *)
(* byte is stored as a string under the channel name, without the white    *)
(* space at its beginning and at its end and otherwise byte for byte; a    *)
(* payload that holds a byte above 127 leaves the live store and the       *)
(* output queue as they were.                                              *)
(* ---------------------------------------------------------------------- *)
C33_Step ==
    RefHandsAscii =>
        IF RefIsAsciiText(RefAsciiPayload)
        THEN /\ RefAsciiName \in DOMAIN live_data'
             /\ live_data'[RefAsciiName].value.kind = "text"
             /\ RefStripped(RefAsciiPayload, live_data'[RefAsciiName].value.v)
        ELSE /\ live_data' = live_data
             /\ output_queue' = output_queue

C33_AsciiStoredStripped == [][C33_Step]_vars

C33_Witness ==
    /\ stream = FrameLatLon \o FrameNonAscii
    /\ Len(log) = 2
    /\ log[2].bytes = FrameNonAscii
    /\ DOMAIN live_data = {"LatLon"}
    /\ live_data["LatLon"].value = Val("text", <<49, 78, 50, 87>>, 1)    \* " 1N2W " stored as "1N2W"

(* ---------------------------------------------------------------------- *)
(* Sending can fail.  fastnet2ip.py: sendto raises socket.error inside     *)
(* process_frame_queue, whose inner handler logs "Failed to send message"  *)
(* and goes on with the next channel.  link tells, for the first, second,  *)
(* ... message given to the socket since the start, whether sendto         *)
(* returns; a pass is process_frame_queue under one link.                  *)
(* fn2ip.py: sendto raises inside output_monitor, whose handler logs       *)
(* "Socket error during broadcast" and goes back to output_queue.get.      *)
(* ---------------------------------------------------------------------- *)
Passed(live, out, hist, logged) ==
    [live |-> live, sent |-> out, log |-> hist, errors |-> logged]

Attempts(hist) == Cardinality({j \in DOMAIN hist : hist[j].message # NoMessage})

(* a handler that gives the store back as it was before the channel *)
send_or_log_rolls_back(so_far, c, frame, stored, message, link) ==
    IF message = NoMessage \/ link[Attempts(so_far.log) + 1]
    THEN Passed(stored,
                IF message # NoMessage THEN Append(so_far.sent, message) ELSE so_far.sent,
                Append(so_far.log, Processed(frame, c.channel_name, c.interpreted, message)),
                so_far.errors)
    ELSE Passed(so_far.live, so_far.sent,
                Append(so_far.log, Processed(frame, c.channel_name, c.interpreted, message)),
                Append(so_far.errors, "Failed to send message"))

(* if message: try: udp_socket.sendto(...) except socket.error as e:       *)
(* logger.error(f"Failed to send message: {e}")                            *)
send_or_log(so_far, c, frame, stored, message, link) ==
    IF message = NoMessage
    THEN Passed(stored, so_far.sent,
                Append(so_far.log, Processed(frame, c.channel_name, c.interpreted, message)),
                so_far.errors)
    ELSE IF link[Attempts(so_far.log) + 1]
    THEN Passed(stored, Append(so_far.sent, message),
                Append(so_far.log, Processed(frame, c.channel_name, c.interpreted, message)),
                so_far.errors)
    ELSE Passed(stored, so_far.sent,
                Append(so_far.log, Processed(frame, c.channel_name, c.interpreted, message)),
                Append(so_far.errors, "Failed to send message"))

(* update_live_data(...); message = trigger_nmea_sentence(channel_name);   *)
(* the send                                                                *)
process_channel_send(so_far, c, frame, now, link) ==
    CHOOSE after \in {send_or_log(so_far, c, frame, stored,
                                  trigger_nmea_sentence(c.channel_name, stored, now), link) :
                         stored \in {store_live_data(so_far.live, c.channel_name,
                                                     c.channel_id, c.interpreted, now)}} :
        TRUE

RECURSIVE process_frame_values_send(_, _, _, _, _)
process_frame_values_send(values, frame, so_far, now, link) ==
    IF values = <<>> THEN so_far
    ELSE CHOOSE after \in {process_frame_values_send(Tail(values), frame, next, now, link) :
                              next \in {process_channel_send(so_far, Head(values), frame,
                                                             now, link)}} :
             TRUE

RECURSIVE process_frame_queue_send(_, _, _, _)
process_frame_queue_send(queue, so_far, now, link) ==
    IF queue = <<>> THEN so_far
    ELSE CHOOSE after \in {process_frame_queue_send(Tail(queue), next, now, link) :
                              next \in {process_frame_values_send(
                                            Head(queue), FramesDone(so_far.log) + 1,
                                            so_far, now, link)}} :
             TRUE

ChannelsIn(queue) == Len(Flatten(queue))

(* process_frame_queue(frame_buffer.frame_queue, udp_socket, args.udp_port) *)
ProcessFrameQueueSend ==
    /\ pc = "process"
    /\ \E link \in [1..(Len(log) + ChannelsIn(frame_queue)) -> BOOLEAN] :
           \E after \in {process_frame_queue_send(frame_queue,
                                                  Passed(live_data, sent, log, errors),
                                                  utcnow, link)} :
               /\ live_data' = after.live
               /\ sent' = after.sent
               /\ log' = after.log
               /\ errors' = after.errors
    /\ frame_queue' = <<>>
    /\ pc' = "read"
    /\ UNCHANGED <<thread_vars, in_hand, updates, args, input_source, udp_socket,
                   exit_status, dec, stream, wire, raw_queue, buffer, output_queue, handed,
                   utcnow>>

(* output_monitor: message = output_queue.get(...); sock.sendto raises     *)
OutputMonitorFails ==
    /\ output_queue # <<>>
    /\ output_queue' = Tail(output_queue)
    /\ errors' = Append(errors, "Socket error during broadcast")
    /\ UNCHANGED <<thread_vars, frame_queue, args, input_source, udp_socket, exit_status,
                   dec, stream, utcnow, wire, in_hand, raw_queue, buffer, pc, updates,
                   live_data, sent, log, handed>>

(* the frames get_complete_frames() has left in the frame queue *)
SendFrames ==
    {<<Channel("Heading", 73, Num(910, 10)), Channel("Boatspeed (Knots)", 65, Num(42, 10))>>,
     <<Channel("True Wind Angle", 89, Num(-450, 10))>>,
     <<Channel("Depth (Feet)", 194, Num(300, 10))>>,
     <<Channel("LatLon", 71, Val("text", <<48, 48, 48, 48>>, 1))>>}    \* "0000"

InitQueued ==
    /\ stream = <<>>
    /\ wire = <<>>
    /\ raw_queue = <<>>
    /\ buffer = <<>>
    /\ pc = "process"
    /\ live_data = EmptyStore
    /\ output_queue = <<>>
    /\ utcnow = 0
    /\ log = <<>>
    /\ handed = NothingHanded
    /\ dec = NoDecode
    /\ ThreadsIdle
    /\ sent = <<>>
    /\ MainIdle
    /\ \E k \in 1..2 : frame_queue \in [1..k -> SendFrames]

InitSend == InitOutput \/ InitQueued

NextSend ==
    \/ NextOutput
    \/ OutputMonitorFails
    \/ ProcessFrameQueueSend

SpecSend == InitSend /\ [][NextSend]_vars

(* ---------------------------------------------------------------------- *)
(* C34: a datagram that cannot be sent costs that datagram only.  An       *)
(* error is logged for it.  In fastnet2ip.py the pass over the frame queue *)
(* stores every channel of every queued frame and calls every builder as   *)
(* it does when all sends succeed, and gives every message but the failed  *)
(* ones to the socket, in order.  In fn2ip.py the failed sentence is taken *)
(* off the output queue and the decoder's buffer, store and pending        *)
(* updates are not touched.                                                *)
(* ---------------------------------------------------------------------- *)
RefNewMessages ==
    SelectSeq([j \in 1..(Len(log') - Len(log)) |-> log'[Len(log) + j].message],
              RefIsMessage)

RECURSIVE RefIsSubsequence(_, _)
RefIsSubsequence(part, whole) ==
    IF part = <<>> THEN TRUE
    ELSE IF whole = <<>> THEN FALSE
    ELSE IF Head(part) = Head(whole) THEN RefIsSubsequence(Tail(part), Tail(whole))
    ELSE RefIsSubsequence(part, Tail(whole))

RefBridgePass ==
    \E smooth \in {process_frame_queue(frame_queue, Outcome(live_data, sent, log), utcnow)} :
        /\ live_data' = smooth.live
        /\ log' = smooth.log
        /\ Len(log') = Len(log) + ChannelsIn(frame_queue)
        /\ \A i \in DOMAIN frame_queue : \A k \in DOMAIN frame_queue[i] :
               frame_queue[i][k].channel_name \in DOMAIN live_data'
        /\ Len(sent') >= Len(sent) /\ SubSeq(sent', 1, Len(sent)) = sent
        /\ RefIsSubsequence(SubSeq(sent', Len(sent) + 1, Len(sent')), RefNewMessages)
        /\ Len(errors') >= Len(errors)
        /\ (Len(sent') - Len(sent)) + (Len(errors') - Len(errors)) = Len(RefNewMessages)

RefMonitorFailure ==
    /\ output_queue # <<>> /\ output_queue' = Tail(output_queue)
    /\ UNCHANGED <<sent, live_data, updates, pc, buffer, raw_queue, log, in_hand, wire>>

C34_Step ==
    /\ pc = "process" /\ pc' = "read" => RefBridgePass
    /\ pc \notin {"read", "process"} /\ errors' # errors => RefMonitorFailure

C34_SendFailureCostsOneDatagram == [][C34_Step]_vars

C34_Witness ==
    /\ pc = "read"
    /\ Len(log) = 2
    /\ log[1].channel_name = "Heading" /\ log[1].message # NoMessage
    /\ log[2].channel_name = "Boatspeed (Knots)"
    /\ errors = <<"Failed to send message">>
    /\ sent = <<log[2].message>>
    /\ DOMAIN live_data = {"Heading", "Boatspeed (Knots)"}
(* ---------------------------------------------------------------------- *)
(* The decoder on segment-carrying payloads, alone and inside the scanner: *)
(* calls of decode_format_and_data for every format byte on payloads of    *)
(* FormatBytes, and streams of frames that carry one payload under two     *)
(* channels and twice in a row.                                            *)
(* ---------------------------------------------------------------------- *)
FormatBytes == {0, 1, 91, 255}

FrameSamePayload == <<1, 9, 8, 1, 237, 65, 2, 91, 255, 73, 2, 91, 255, 190>>
FrameWideFormats ==
    <<1, 9, 12, 1, 233, 65, 71, 0, 1, 91, 255, 73, 4, 255, 0, 1, 91, 117>>
FrameAgain == <<1, 9, 4, 1, 241, 73, 2, 91, 255, 91>>

FormatStreams ==
    {f1 \o f2 : f1 \in {FrameS1, FrameSamePayload, FrameWideFormats, FrameAgain},
                f2 \in {FrameSamePayload, FrameAgain, FrameWideFormats}}

InitFormats ==
    /\ \/ /\ stream = <<>>
          /\ \E c \in SampleChannels, fb \in Byte, n \in {0, 2, 4},
                bytes \in [1..4 -> FormatBytes] :
                dec = Call(c, fb, SubSeq(bytes, 1, n), <<>>)
       \/ /\ stream \in FormatStreams
          /\ dec = NoDecode
    /\ wire = stream
    /\ raw_queue = <<>>
    /\ buffer = <<>>
    /\ pc = "get"
    /\ live_data = EmptyLive
    /\ output_queue = <<>>
    /\ utcnow = 0
    /\ log = <<>>
    /\ handed = NothingHanded
    /\ ThreadsIdle
    /\ BridgeIdle

NextFormats ==
    \/ Decode
    \/ \E n \in 1..MaxChunk : SerialRead(n)
    \/ ScannerGet
    \/ ScanShort
    \/ Incomplete
    \/ FrameBroadcast

SpecFormats == InitFormats /\ [][NextFormats]_vars

(* ---------------------------------------------------------------------- *)
(* C35: the interpreted value of a triple is a function of its format byte *)
(* and its payload bytes alone: a call of the decoder gives that value     *)
(* whatever the channel id, and a broadcast frame stores that value for    *)
(* the last triple of each channel whatever was decoded or stored before.  *)
(* ---------------------------------------------------------------------- *)
(* the payload read as one big-endian unsigned integer *)
RECURSIVE RefBigEndian(_)
RefBigEndian(data) ==
    IF data = <<>> THEN 0
    ELSE RefBigEndian(SubSeq(data, 1, Len(data) - 1)) * 256 + data[Len(data)]

RefTwosComplement(w) == IF w >= 32768 THEN w - 65536 ELSE w

RefGlyph(b) ==
    IF b = 0 THEN 32 ELSE IF b = 190 THEN 79 ELSE IF b = 232 THEN 70
    ELSE IF b = 98 THEN 110 ELSE IF b = 114 THEN 111 ELSE 63

(* the value of a format byte and a payload; "none" where there is none:   *)
(* w is a payload of two bytes as one integer, hi and lo the two halves of *)
(* a payload of four, low the last three bytes of it                       *)
RefInterpret(format_byte, data) ==
    LET f == format_byte % 16
        den == TenTo((format_byte \div 64) % 4)
        w == RefBigEndian(data)
        hi == RefBigEndian(SubSeq(data, 1, 2))
        lo == RefBigEndian(SubSeq(data, 3, 4))
        low == RefBigEndian(SubSeq(data, 2, 4))
    IN  IF Len(data) = 2 /\ f = 1 THEN Val("num", <<RefTwosComplement(w)>>, den)
        ELSE IF Len(data) = 2 /\ f = 2 THEN Val("num", <<w % 1024>>, den)
        ELSE IF Len(data) = 2 /\ f \in {3, 8} THEN Val("num", <<w % 512>>, den)
        ELSE IF Len(data) = 4 /\ f = 4 THEN Val("num", <<low>>, den)
        ELSE IF Len(data) = 4 /\ f = 5
        THEN Val("timer", <<(low \div 65536) * 3600 + ((low \div 256) % 256) * 60
                            + (low % 256)>>, 1)
        ELSE IF Len(data) = 4 /\ f = 6
        THEN Val("text", <<RefGlyph(hi \div 256), RefGlyph(hi % 256),
                           RefGlyph(lo \div 256), RefGlyph(lo % 256)>>, 1)
        ELSE IF Len(data) = 4 /\ f = 7
        THEN Val("num", <<(lo \div 512) * 256 + (lo % 256)>>, den)
        ELSE IF Len(data) = 4 /\ f = 10
        THEN Val("pair", <<RefTwosComplement(hi), RefTwosComplement(lo)>>, den)
        ELSE Val("none", <<>>, 1)

(* the triples of a frame that have a value, in order: name and value *)
RefValued(frame) ==
    LET triples == RefTriples(RefBody(frame))
        valued == SelectSeq(triples,
                      LAMBDA t : RefInterpret(t.format_byte, t.data_bytes).kind # "none")
    IN  [i \in 1..Len(valued) |->
            <<RefName(valued[i]), RefInterpret(valued[i].format_byte, valued[i].data_bytes)>>]

C35_Step ==
    /\ dec'.called =>
           /\ dec'.result.interpreted = RefInterpret(dec'.format_byte, dec'.data_bytes)
           /\ dec'.result.ok <=> dec'.result.interpreted.kind # "none"
    /\ Len(log') = Len(log) + 1 /\ log'[Len(log')].kind = "frame"
       /\ log'[Len(log')].bytes[4] = 1 =>
           \E ups \in {RefValued(log'[Len(log')].bytes)} :
               \A i \in DOMAIN ups :
                   get_live_data(live_data', ups[i][1]) = RefLastUpdate(ups, ups[i][1])

C35_DecodingIsStateless == [][C35_Step]_vars

(* one payload decoded under two channels, the second time into a store    *)
(* that holds other values already                                         *)
C35_Witness ==
    /\ Len(log) = 2
    /\ log[1].bytes = FrameWideFormats
    /\ log[2].bytes = FrameSamePayload
    /\ get_live_data(live_data, "Boatspeed (Knots)") = Val("num", <<1023>>, 1)
    /\ get_live_data(live_data, "Heading") = Val("num", <<1023>>, 1)
(* ---------------------------------------------------------------------- *)
(* C36: live_data_lock is never held across I/O: a thread that prints      *)
(* (print_live_data writing "Live Data is empty." or a row of the table)   *)
(* does not hold the lock while it does.                                   *)
(* ---------------------------------------------------------------------- *)
(* the steps of print_live_data that write to the terminal *)
RefPrints == PrinterEmpty \/ PrinterReadTimestamp

C36_Step == RefPrints => live_data_lock # "printer"

C36_NoIoUnderLock == [][C36_Step]_vars
(* ---------------------------------------------------------------------- *)
(* C37: for the formats that carry a segment code beside an unsigned value *)
(* (0x02, 0x03, 0x04, 0x08) and for 0x07, two payloads that differ only in *)
(* the bits outside the value field decode to the same interpreted value,  *)
(* and the raw unsigned value lies within its field width: 0..1023 for     *)
(* 0x02, 0..511 for 0x03 and 0x08, 0..2^24-1 for 0x04, 0..32767 for 0x07.  *)
(* ---------------------------------------------------------------------- *)
(* the bits of the payload that belong to the value field *)
RefValueBits(f, data) ==
    CASE f = 2 -> <<data[1] % 4, data[2]>>
      [] f \in {3, 8} -> <<data[1] % 2, data[2]>>
      [] f = 4 -> <<data[2], data[3], data[4]>>
      [] f = 7 -> <<data[3] \div 2, data[4]>>

RefFieldWidth(f) ==
    CASE f = 2 -> 1024
      [] f \in {3, 8} -> 512
      [] f = 4 -> 16777216
      [] f = 7 -> 32768

(* the unsigned value of the raw value: it stands alone for 0x07 and       *)
(* behind the segment code for the others                                  *)
RefUnsigned(f, raw) == raw[Len(raw)]

C37_SegmentBitsIgnored ==
    dec.called /\ dec.format_byte % 16 \in {2, 3, 4, 7, 8}
    /\ Len(dec.data_bytes) = PayloadLength(dec.format_byte % 16) =>
        \E f \in {dec.format_byte % 16} :
            /\ dec.result.ok
            /\ Len(dec.result.raw) = (IF f = 7 THEN 1 ELSE 2)
            /\ RefUnsigned(f, dec.result.raw) \in 0..(RefFieldWidth(f) - 1)
            /\ dec.result.interpreted.kind = "num"
            /\ dec.result.interpreted.v = <<RefUnsigned(f, dec.result.raw)>>
            /\ \A other \in [1..Len(dec.data_bytes) -> FormatBytes] :
                   RefValueBits(f, other) = RefValueBits(f, dec.data_bytes) =>
                       \E r \in {decode_format_and_data(dec.channel_id, dec.format_byte,
                                                        other)} :
                           /\ r.interpreted = dec.result.interpreted
                           /\ RefUnsigned(f, r.raw) = RefUnsigned(f, dec.result.raw)

(* format 0x02 over a divisor of 10 with every segment bit set: the value  *)
(* is the full 10-bit field, as it is for the payload 5B FF                *)
C37_Witness ==
    /\ dec.called
    /\ dec.format_byte = 66
    /\ dec.data_bytes = <<255, 255>>
    /\ dec.result.raw = <<63, 1023>>
    /\ dec.result.interpreted = Val("num", <<1023>>, 10)
    /\ decode_format_and_data(dec.channel_id, 66, <<91, 255>>).interpreted
          = dec.result.interpreted
(* ---------------------------------------------------------------------- *)
(* C38: the frames emitted and the bytes discarded by the scanner do not   *)
(* depend on how the byte sequence is split into chunks: once every byte   *)
(* has arrived, they are what the scanner makes of the whole sequence      *)
(* given as one chunk.                                                     *)
(* ---------------------------------------------------------------------- *)
(* the events of the scanner on s as one chunk, from 0-based offset o on   *)
RECURSIVE RefOneChunk(_, _)
RefOneChunk(s, o) ==
    IF Len(s) - o < 6 THEN <<>>
    ELSE IF ~HeaderOkAt(s, o)
    THEN <<Event("header", o, <<s[o + 1]>>)>> \o RefOneChunk(s, o + 1)
    ELSE IF Len(s) - o < ClaimedLength(s, o) THEN <<>>
    ELSE IF ~BodyOkAt(s, o)
    THEN <<Event("body", o, <<s[o + 1]>>)>> \o RefOneChunk(s, o + 1)
    ELSE IF s[o + 4] = 3 /\ ClaimedLength(s, o) < 8
    THEN <<Event("frame", o, FrameAt(s, o))>>
    ELSE <<Event(IF s[o + 4] \in {1, 3} THEN "frame" ELSE "ignored", o, FrameAt(s, o))>>
         \o RefOneChunk(s, o + ClaimedLength(s, o))

C38_ChunkingIndependent == Quiescent => log = RefOneChunk(stream, 0)
(* ---------------------------------------------------------------------- *)
(* fastnet2ip.py: process_frame_queue on frames whose channels are zero,   *)
(* alone, beside a zero sibling and beside a sibling that is not zero.     *)
(* ---------------------------------------------------------------------- *)
ZeroFrames ==
    {<<Channel("True Wind Angle", 89, Num(0, 10))>>,
     <<Channel("True Wind Speed (Knots)", 85, Num(0, 10))>>,
     <<Channel("True Wind Angle", 89, Num(0, 10)),
       Channel("True Wind Speed (Knots)", 85, Num(0, 10))>>,
     <<Channel("True Wind Angle", 89, Num(-450, 10))>>,
     <<Channel("True Wind Speed (Knots)", 85, Num(123, 10))>>,
     <<Channel("Apparent Wind Angle", 81, Num(0, 10)),
       Channel("Apparent Wind Speed (Knots)", 77, Num(0, 10))>>,
     <<Channel("Heading", 73, Num(0, 1))>>,
     <<Channel("Heading", 73, Val("text", <<48>>, 1))>>,    \* "0"
     <<Channel("Boatspeed (Knots)", 65, Num(0, 100))>>,
     <<Channel("Rudder Angle", 11, Num(0, 10))>>}

InitZero ==
    /\ stream = <<>>
    /\ wire = <<>>
    /\ raw_queue = <<>>
    /\ buffer = <<>>
    /\ pc = "process"
    /\ live_data = EmptyStore
    /\ output_queue = <<>>
    /\ utcnow = 0
    /\ log = <<>>
    /\ handed = NothingHanded
    /\ dec = NoDecode
    /\ ThreadsIdle
    /\ sent = <<>>
    /\ MainIdle
    /\ \E k \in 1..2 : frame_queue \in [1..k -> ZeroFrames]

NextZero ==
    \/ ProcessFrameQueue
    \/ ClockTick

SpecZero == InitZero /\ [][NextZero]_vars

(* ---------------------------------------------------------------------- *)
(* C39: a channel whose latest stored value is zero is present: the        *)
(* numeric read of it gives 0 and not None, the builder that reads it      *)
(* writes "0.0" into its field and not a blank, and a sentence with a      *)
(* status field has status A when every channel it reads is stored.        *)
(* ---------------------------------------------------------------------- *)
RefCommas(msg, i) == Cardinality({j \in 1..i : msg[j] = 44})

(* the k-th of the comma-separated fields of a sentence *)
RefField(msg, k) ==
    LET first == IF k = 1 THEN 1
                 ELSE 1 + CHOOSE j \in DOMAIN msg : msg[j] = 44 /\ RefCommas(msg, j) = k - 1
        last == IF \E j \in DOMAIN msg : msg[j] = 44 /\ RefCommas(msg, j) = k
                THEN (CHOOSE j \in DOMAIN msg : msg[j] = 44 /\ RefCommas(msg, j) = k) - 1
                ELSE Len(msg)
    IN  SubSeq(msg, first, last)

RefIsZero(value) ==
    \/ value.kind = "num" /\ value.v[1] = 0
    \/ value.kind = "text" /\ value.v = <<48>>

(* the channels the builder of a channel reads and the fields it writes    *)
(* them to, and the field of its status (0 when it has none)               *)
RefReads(channel_name) ==
    CASE channel_name \in {"True Wind Angle", "True Wind Speed (Knots)"} ->
             {<<"True Wind Angle", 2>>, <<"True Wind Speed (Knots)", 4>>}
      [] channel_name \in {"Apparent Wind Angle", "Apparent Wind Speed (Knots)"} ->
             {<<"Apparent Wind Angle", 2>>, <<"Apparent Wind Speed (Knots)", 4>>}
      [] channel_name = "Heading" -> {<<"Heading", 2>>}
      [] channel_name = "Boatspeed (Knots)" ->
             {<<"Heading", 4>>, <<"Boatspeed (Knots)", 6>>}
      [] channel_name = "Rudder Angle" -> {<<"Rudder Angle", 2>>}
      [] OTHER -> {}

RefStatusField(channel_name) ==
    CASE channel_name \in {"True Wind Angle", "True Wind Speed (Knots)",
                           "Apparent Wind Angle", "Apparent Wind Speed (Knots)"} -> 6
      [] channel_name = "Rudder Angle" -> 3
      [] OTHER -> 0

C39_ZeroIsPresent ==
    /\ \A n \in DOMAIN live_data :
           RefIsZero(live_data[n].interpreted_value) =>
               /\ get_live_data_float(live_data, n) # None
               /\ get_live_data_float(live_data, n).v[1] = 0
    /\ log # <<>> =>
           \E last \in {log[Len(log)]} :
               /\ RefReads(last.channel_name) # {} => last.message # NoMessage
               /\ \A rd \in RefReads(last.channel_name) :
                      rd[1] \in DOMAIN live_data
                      /\ RefIsZero(live_data[rd[1]].interpreted_value) =>
                          RefField(last.message, rd[2]) = <<48, 46, 48>>    \* "0.0"
               /\ RefStatusField(last.channel_name) > 0
                  /\ (\A rd \in RefReads(last.channel_name) : rd[1] \in DOMAIN live_data) =>
                      Head(RefField(last.message, RefStatusField(last.channel_name))) = 65

(* a true wind speed of zero arrives when the true wind angle is zero:     *)
(* the sentence sent is IIMWV,0.0,T,0.0,N,A                                *)
C39_Witness ==
    /\ pc = "read"
    /\ Len(log) = 2
    /\ log[2].channel_name = "True Wind Speed (Knots)"
    /\ live_data["True Wind Angle"].interpreted_value = Num(0, 10)
    /\ live_data["True Wind Speed (Knots)"].interpreted_value = Num(0, 10)
    /\ sent[Len(sent)] = log[2].message
    /\ RefField(log[2].message, 2) = <<48, 46, 48>>
    /\ RefField(log[2].message, 4) = <<48, 46, 48>>
    /\ Head(RefField(log[2].message, 6)) = 65
(* ---------------------------------------------------------------------- *)
(* C40: nothing is lost, duplicated or reordered between serial_reader and *)
(* frame_scanner: the bytes not yet in the scanner's buffer (waiting in    *)
(* raw_queue, held by the reader inside put, or not yet read) are always   *)
(* the rest of the stream; a chunk enters raw_queue as it was read and     *)
(* leaves it, oldest first, into the buffer, whole and behind what the     *)
(* buffer holds; the reader holding data before a full queue changes none  *)
(* of it.                                                                  *)
(* ---------------------------------------------------------------------- *)
RefAhead(queue, held, unread) == Flatten(queue) \o held \o unread

RefIsRestOfStream(bytes) ==
    bytes = SubSeq(stream, Len(stream) - Len(bytes) + 1, Len(stream))

C40_Step ==
    \E before \in {RefAhead(raw_queue, in_hand, wire)},
       after \in {RefAhead(raw_queue', in_hand', wire')} :
        /\ RefIsRestOfStream(after)
        /\ Len(raw_queue') > Len(raw_queue) =>
               /\ raw_queue' = Append(raw_queue, in_hand)
               /\ in_hand' = <<>>
               /\ after = before
        /\ Len(raw_queue') < Len(raw_queue) =>
               /\ raw_queue' = Tail(raw_queue)
               /\ buffer' = buffer \o Head(raw_queue)
               /\ before = Head(raw_queue) \o after
        /\ Len(raw_queue') = Len(raw_queue) =>
               /\ raw_queue' = raw_queue
               /\ after = before
               /\ Len(buffer') <= Len(buffer)
               /\ in_hand # <<>> => in_hand' = in_hand

====
